---- MODULE Spec2Model ----
(***************************************************************************)
(* Event engines, the engine coordinator and the TOY seasonal engine of    *)
(* AlphaCycle (backend/services/event-engines.js, toy-barometer.js,        *)
(* market-data.js), as a state machine.                                    *)
(*                                                                         *)
(* Numbers.  Prices are positive integers (any fixed unit).  Every         *)
(* percentage the code computes is kept as an exact fraction [n, d] with   *)
(* d > 0 and compared by cross multiplication; floating point rounding is  *)
(* not modelled.  A date is a timestamp counted in ticks, TicksPerDay      *)
(* ticks to the UTC day.                                                   *)
(*                                                                         *)
(* JavaScript values.  An argument is a tagged value: "array" (a price     *)
(* series), "object" (a parameter map holding only the supplied keys),     *)
(* "null" or "undefined".                                                  *)
(***************************************************************************)
EXTENDS Integers, Sequences, FiniteSets, TLC

VARIABLES
    engines,    \* event kind -> health fields of the engine instance registered for it
    lastCall,   \* the last completed call: its request and everything observable of it
    calc,       \* the last call of ExtendedForwardReturnsCalculator.calculate
    filterService,  \* the ContextualFilterService singleton: its cache, and the
                    \* offset tz of the process's local time from UTC
    filterCall, \* the last call of a method of the filter service
    userDoc,    \* the document of the registered user: tier and usage
    queryCache, \* the QueryCache collection: queryHash -> document
    queryHistory,   \* the QueryHistory collection, oldest document first
    response,   \* the last response of POST /api/analyze, with its request
    inflight,   \* requests of POST /api/analyze in progress: id -> position and locals
    running     \* analyze calls in progress on an engine: id -> position and locals

serverVars == <<userDoc, queryCache, queryHistory, response>>

asyncVars == <<inflight, running>>

vars == <<engines, lastCall, calc, filterService, filterCall, userDoc, queryCache,
          queryHistory, response, inflight, running>>

(***************************************************************************)
(* Exact fractions                                                         *)
(***************************************************************************)
R(num, den) == [n |-> num, d |-> den]

RECURSIVE GCD(_, _)
GCD(a, b) == IF b = 0 THEN a ELSE GCD(b, a % b)

IAbs(x) == IF x < 0 THEN -x ELSE x

RNorm(x) ==
    LET g == GCD(IAbs(x.n), x.d)
    IN  IF x.n = 0 THEN R(0, 1) ELSE R(x.n \div g, x.d \div g)

RLeq(x, y) == x.n * y.d <= y.n * x.d
RLt(x, y) == x.n * y.d < y.n * x.d
RGeq(x, y) == RLeq(y, x)
RGt(x, y) == RLt(y, x)
RNeg(x) == R(-x.n, x.d)
RAbs(x) == R(IAbs(x.n), x.d)
RAdd(x, y) == RNorm(R(x.n * y.d + y.n * x.d, x.d * y.d))
RSub(x, y) == RAdd(x, RNeg(y))
RDivInt(x, k) == RNorm(R(x.n, x.d * k))
Zero == R(0, 1)

RECURSIVE RSum(_)
RSum(s) == IF s = <<>> THEN Zero ELSE RAdd(Head(s), RSum(Tail(s)))

\* matches.length > 0 ? matches.reduce((sum, m) => sum + f(m), 0) / matches.length : 0
Average(s) == IF Len(s) > 0 THEN RDivInt(RSum(s), Len(s)) ELSE Zero

\* ((endPrice / startPrice) - 1) * 100, and ((to - from) / from) * 100
PctReturn(startPrice, endPrice) == RNorm(R(100 * (endPrice - startPrice), startPrice))

(***************************************************************************)
(* JavaScript values and parameter destructuring                           *)
(***************************************************************************)
NULL == "<null>"

JSArray(rows) == [tag |-> "array", rows |-> rows, props |-> <<>>]
JSObject(props) == [tag |-> "object", rows |-> <<>>, props |-> props]
JSNull == [tag |-> "null", rows |-> <<>>, props |-> <<>>]
JSUndefined == [tag |-> "undefined", rows |-> <<>>, props |-> <<>>]

IsNullish(v) == v.tag \in {"null", "undefined"}

\* const { key = dflt } = v, for v that is not null or undefined: an array has
\* none of the parameter keys, so every key takes its default.
Destructure(v, key, dflt) ==
    IF v.tag = "object" /\ key \in DOMAIN v.props THEN v.props[key] ELSE dflt

HasKey(v, key) == v.tag = "object" /\ key \in DOMAIN v.props

(***************************************************************************)
(* Outcome of running an algorithm: it returns a value or throws.          *)
(* fetched lists the tickers it asked the market-data provider for.        *)
(***************************************************************************)
NoData == [matches |-> <<>>, summary |-> <<>>]

Returned(value, fetched) ==
    [threw |-> FALSE, message |-> NULL, value |-> value, fetched |-> fetched]

Threw(message, fetched) ==
    [threw |-> TRUE, message |-> message, value |-> NoData, fetched |-> fetched]

TypeErrorNullish == "TypeError: Cannot read properties of null or undefined"
TypeErrorDestructure == "TypeError: Cannot destructure property of null or undefined"
TypeErrorMissingRow == "TypeError: Cannot read properties of undefined (reading 'close')"

(***************************************************************************)
(* MarketDataService.getHistoricalData: the provider answers with a series *)
(* (possibly empty) or the call throws.  market maps a ticker to the       *)
(* answer it gets for the duration of one call.                            *)
(***************************************************************************)
FetchOk(rows) == [ok |-> TRUE, rows |-> rows]
FetchFails == [ok |-> FALSE, rows |-> <<>>]

FetchErrorMessage(ticker) == "Failed to fetch market data for " \o ticker

(***************************************************************************)
(* BaseEventEngine: health fields and the fault-isolation wrapper          *)
(***************************************************************************)
EventTypes ==
    {"PERCENT_MOVE", "REVERSAL", "SECTOR_SPREAD", "MOMENTUM_BULLISH",
     "MOMENTUM_BEARISH", "VOLATILITY_EVENT", "MACRO_EVENT", "TOY_BAROMETER"}

\* The name each registered instance was constructed with.
EngineName(eventType) ==
    CASE eventType = "PERCENT_MOVE" -> "Percent Move"
      [] eventType = "REVERSAL" -> "Reversal Patterns"
      [] eventType = "SECTOR_SPREAD" -> "Sector Spread"
      [] eventType \in {"MOMENTUM_BULLISH", "MOMENTUM_BEARISH"} -> "Momentum Patterns"
      [] eventType = "VOLATILITY_EVENT" -> "Volatility Events"
      [] eventType = "MACRO_EVENT" -> "Macro Events"
      [] eventType = "TOY_BAROMETER" -> "TOY (Turn of Year)"

NewEngine == [isHealthy |-> TRUE, lastError |-> NULL, successCount |-> 0, errorCount |-> 0]

getFallbackMessage(name) ==
    name \o " engine is temporarily unavailable. Please try again later."

NoResult == [success |-> FALSE, data |-> NoData, error |-> NULL, fallback |-> NULL]

\* What a call of an engine's analyze leaves behind: the engine's health fields,
\* whether the call raised to its caller, the result it returned otherwise, the
\* tickers it fetched and the warnings and errors it wrote to the console.
Completed(health, result, fetched, log) ==
    [health |-> health, raised |-> FALSE, raisedMessage |-> NULL,
     result |-> result, fetched |-> fetched, log |-> log]

Raised(health, message, fetched, log) ==
    [health |-> health, raised |-> TRUE, raisedMessage |-> message,
     result |-> NoResult, fetched |-> fetched, log |-> log]

EngineFailedLog(name, message) ==
    [level |-> "error", text |-> name \o " Engine Failed: " \o message]

\* A wrapper that counts the failure but lets the exception through.
safeExecuteRethrows(health, name, outcome) ==
    IF ~outcome.threw
    THEN Completed([health EXCEPT !.successCount = @ + 1, !.isHealthy = TRUE,
                                  !.lastError = NULL],
                   [success |-> TRUE, data |-> outcome.value, error |-> NULL,
                    fallback |-> NULL],
                   outcome.fetched, <<>>)
    ELSE Raised([health EXCEPT !.errorCount = @ + 1, !.lastError = outcome.message,
                               !.isHealthy = FALSE],
                outcome.message, outcome.fetched,
                <<EngineFailedLog(name, outcome.message)>>)

\* A wrapper whose healthy flag, once lowered, stays lowered.
safeExecuteLatches(health, name, outcome) ==
    IF ~outcome.threw
    THEN Completed([health EXCEPT !.successCount = @ + 1, !.lastError = NULL],
                   [success |-> TRUE, data |-> outcome.value, error |-> NULL,
                    fallback |-> NULL],
                   outcome.fetched, <<>>)
    ELSE Completed([health EXCEPT !.errorCount = @ + 1, !.lastError = outcome.message,
                                  !.isHealthy = FALSE],
                   [success |-> FALSE, data |-> NoData,
                    error |-> name \o " analysis unavailable: " \o outcome.message,
                    fallback |-> getFallbackMessage(name)],
                   outcome.fetched, <<EngineFailedLog(name, outcome.message)>>)

safeExecute(health, name, outcome) ==
    IF ~outcome.threw
    THEN Completed([health EXCEPT !.successCount = @ + 1, !.isHealthy = TRUE,
                                  !.lastError = NULL],
                   [success |-> TRUE, data |-> outcome.value, error |-> NULL,
                    fallback |-> NULL],
                   outcome.fetched, <<>>)
    ELSE Completed([health EXCEPT !.errorCount = @ + 1, !.lastError = outcome.message,
                                  !.isHealthy = FALSE],
                   [success |-> FALSE, data |-> NoData,
                    error |-> name \o " analysis unavailable: " \o outcome.message,
                    fallback |-> getFallbackMessage(name)],
                   outcome.fetched,
                   <<EngineFailedLog(name, outcome.message)>>)

(***************************************************************************)
(* Engine 1: PercentMoveEngine                                             *)
(***************************************************************************)
\* A scan whose tests are strict: a return equal to the threshold is no match.
RECURSIVE PercentMoveLoopStrict(_, _, _, _, _)
PercentMoveLoopStrict(data, i, percent_move, days, direction) ==
    IF ~(i < Len(data) - days)
    THEN <<>>
    ELSE LET startPrice == data[i + 1].close
             endPrice == data[i + days + 1].close
             cumulativeReturn == PctReturn(startPrice, endPrice)
             isMatch ==
                \/ direction = "up" /\ RGt(cumulativeReturn, percent_move)
                \/ direction = "down" /\ RLt(cumulativeReturn, RNeg(RAbs(percent_move)))
                \/ direction = "both" /\ RGt(RAbs(cumulativeReturn), RAbs(percent_move))
             match == [date |-> data[i + days + 1].date,
                       startPrice |-> startPrice,
                       endPrice |-> endPrice,
                       return |-> cumulativeReturn,
                       direction |-> IF RGt(cumulativeReturn, Zero) THEN "up" ELSE "down"]
         IN  (IF isMatch THEN <<match>> ELSE <<>>)
                \o PercentMoveLoopStrict(data, i + 1, percent_move, days, direction)

\* One pass of the for loop at start index i (0-based), and the passes after it.
RECURSIVE PercentMoveLoop(_, _, _, _, _)
PercentMoveLoop(data, i, percent_move, days, direction) ==
    IF ~(i < Len(data) - days)
    THEN <<>>
    ELSE LET startPrice == data[i + 1].close
             endPrice == data[i + days + 1].close
             cumulativeReturn == PctReturn(startPrice, endPrice)
             isMatch ==
                \/ direction = "up" /\ RGeq(cumulativeReturn, percent_move)
                \/ direction = "down" /\ RLeq(cumulativeReturn, RNeg(RAbs(percent_move)))
                \/ direction = "both" /\ RGeq(RAbs(cumulativeReturn), RAbs(percent_move))
             match == [date |-> data[i + days + 1].date,
                       startPrice |-> startPrice,
                       endPrice |-> endPrice,
                       return |-> cumulativeReturn,
                       direction |-> IF RGt(cumulativeReturn, Zero) THEN "up" ELSE "down"]
         IN  (IF isMatch THEN <<match>> ELSE <<>>)
                \o PercentMoveLoop(data, i + 1, percent_move, days, direction)

RECURSIVE MapReturn(_)
MapReturn(matches) ==
    IF matches = <<>> THEN <<>> ELSE <<Head(matches).return>> \o MapReturn(Tail(matches))

_analyzePercentMove(data, parameters) ==
    IF IsNullish(parameters) THEN Threw(TypeErrorDestructure, <<>>)
    ELSE LET percent_move == Destructure(parameters, "percent_move", R(5, 1))
             days == Destructure(parameters, "days", 5)
             direction == Destructure(parameters, "direction", "both")
         IN  IF IsNullish(data) THEN Threw(TypeErrorNullish, <<>>)
             ELSE IF data.tag # "array"
                  \* data.length is undefined: the loop condition is false at once
                  THEN Returned([matches |-> <<>>,
                                 summary |-> [total_matches |-> 0, avg_return |-> Zero,
                                              criteria |-> <<RAbs(percent_move), days>>]],
                                <<>>)
             ELSE IF days < 0
                  \* data[i + days] is undefined in the first pass of the loop
                  THEN Threw(TypeErrorMissingRow, <<>>)
             ELSE LET matches == PercentMoveLoop(data.rows, 0, percent_move, days, direction)
                  IN  Returned([matches |-> matches,
                                summary |-> [total_matches |-> Len(matches),
                                             avg_return |-> Average(MapReturn(matches)),
                                             criteria |-> <<RAbs(percent_move), days>>]],
                               <<>>)

(***************************************************************************)
(* Engine 2: ReversalEngine                                                *)
(***************************************************************************)
\* A scan that measures the close against the previous close, not the open.
RECURSIVE ReversalLoopFromPrevClose(_, _, _, _, _)
ReversalLoopFromPrevClose(data, i, open_threshold, close_threshold, pattern) ==
    IF ~(i < Len(data))
    THEN <<>>
    ELSE LET prevClose == data[i].close
             open == data[i + 1].open
             close == data[i + 1].close
             openMove == PctReturn(prevClose, open)
             closeMove == PctReturn(prevClose, close)
             isMatch ==
                \/ pattern = "bearish" /\ RGeq(openMove, open_threshold)
                                       /\ RLeq(closeMove, RNeg(close_threshold))
                \/ pattern = "bullish" /\ RLeq(openMove, RNeg(open_threshold))
                                       /\ RGeq(closeMove, close_threshold)
             match == [date |-> data[i + 1].date,
                       prevClose |-> prevClose,
                       open |-> open,
                       close |-> close,
                       openMove |-> openMove,
                       closeMove |-> closeMove,
                       pattern |-> pattern,
                       reversal_size |-> RAbs(RAdd(openMove, closeMove))]
         IN  (IF isMatch THEN <<match>> ELSE <<>>)
                \o ReversalLoopFromPrevClose(data, i + 1, open_threshold,
                                             close_threshold, pattern)

RECURSIVE ReversalLoop(_, _, _, _, _)
ReversalLoop(data, i, open_threshold, close_threshold, pattern) ==
    IF ~(i < Len(data))
    THEN <<>>
    ELSE LET prevClose == data[i].close
             open == data[i + 1].open
             close == data[i + 1].close
             openMove == PctReturn(prevClose, open)
             closeMove == PctReturn(open, close)
             isMatch ==
                \/ pattern = "bearish" /\ RGeq(openMove, open_threshold)
                                       /\ RLeq(closeMove, RNeg(close_threshold))
                \/ pattern = "bullish" /\ RLeq(openMove, RNeg(open_threshold))
                                       /\ RGeq(closeMove, close_threshold)
             match == [date |-> data[i + 1].date,
                       prevClose |-> prevClose,
                       open |-> open,
                       close |-> close,
                       openMove |-> openMove,
                       closeMove |-> closeMove,
                       pattern |-> pattern,
                       reversal_size |-> RAbs(RAdd(openMove, closeMove))]
         IN  (IF isMatch THEN <<match>> ELSE <<>>)
                \o ReversalLoop(data, i + 1, open_threshold, close_threshold, pattern)

RECURSIVE MapReversalSize(_)
MapReversalSize(matches) ==
    IF matches = <<>> THEN <<>>
    ELSE <<Head(matches).reversal_size>> \o MapReversalSize(Tail(matches))

_analyzeReversal(data, parameters) ==
    IF IsNullish(parameters) THEN Threw(TypeErrorDestructure, <<>>)
    ELSE LET open_threshold == Destructure(parameters, "open_threshold", R(2, 1))
             close_threshold == Destructure(parameters, "close_threshold", R(1, 1))
             pattern == Destructure(parameters, "pattern", "bearish")
         IN  IF IsNullish(data) THEN Threw(TypeErrorNullish, <<>>)
             ELSE LET rows == IF data.tag = "array" THEN data.rows ELSE <<>>
                      matches == ReversalLoop(rows, 1, open_threshold, close_threshold,
                                              pattern)
                  IN  Returned([matches |-> matches,
                                summary |-> [total_matches |-> Len(matches),
                                             pattern_type |-> pattern,
                                             avg_reversal |->
                                                Average(MapReversalSize(matches)),
                                             criteria |-> <<pattern, open_threshold,
                                                            close_threshold>>]],
                               <<>>)

(***************************************************************************)
(* _alignDataSeries (SectorSpreadEngine and VolatilityEngine hold the same *)
(* code): inner join of two series on the UTC day of their dates.          *)
(***************************************************************************)
TicksPerDay == 2

\* item.date.toISOString().split('T')[0]: the UTC day a timestamp falls on
ToISODate(date) == date \div TicksPerDay

\* new Map(rows.map(item => [day, item])).get(day): the last item of that day
RECURSIVE MapGet(_, _)
MapGet(rows, day) ==
    IF rows = <<>> THEN <<>>
    ELSE IF ToISODate(rows[Len(rows)].date) = day THEN <<rows[Len(rows)]>>
    ELSE MapGet(SubSeq(rows, 1, Len(rows) - 1), day)

\* The keys of that Map in iteration order: each day once, where it first appears.
RECURSIVE MapKeys(_, _)
MapKeys(rows, seen) ==
    IF rows = <<>> THEN <<>>
    ELSE LET day == ToISODate(Head(rows).date)
         IN  IF day \in seen THEN MapKeys(Tail(rows), seen)
             ELSE <<day>> \o MapKeys(Tail(rows), seen \cup {day})

\* aligned.sort((a, b) => a.date - b.date): a stable sort, ascending by date
RECURSIVE InsertByDate(_, _)
InsertByDate(sorted, item) ==
    IF sorted = <<>> THEN <<item>>
    ELSE IF sorted[Len(sorted)].date <= item.date THEN Append(sorted, item)
    ELSE Append(InsertByDate(SubSeq(sorted, 1, Len(sorted) - 1), item),
                sorted[Len(sorted)])

RECURSIVE SortByDate(_)
SortByDate(items) ==
    IF items = <<>> THEN <<>>
    ELSE InsertByDate(SortByDate(SubSeq(items, 1, Len(items) - 1)), items[Len(items)])

\* A loop that keeps every date of dataA, paired with itself where dataB has
\* no item of that date.
RECURSIVE AlignLoopKeepsLeft(_, _, _)
AlignLoopKeepsLeft(keys, dataA, dataB) ==
    IF keys = <<>> THEN <<>>
    ELSE LET itemA == MapGet(dataA, Head(keys))[1]
             itemB == MapGet(dataB, Head(keys))
         IN  <<[date |-> itemA.date, a |-> itemA,
                b |-> IF itemB # <<>> THEN itemB[1] ELSE itemA]>>
                \o AlignLoopKeepsLeft(Tail(keys), dataA, dataB)

RECURSIVE AlignLoop(_, _, _)
AlignLoop(keys, dataA, dataB) ==
    IF keys = <<>> THEN <<>>
    ELSE LET itemA == MapGet(dataA, Head(keys))[1]
             itemB == MapGet(dataB, Head(keys))
         IN  (IF itemB # <<>>
              THEN <<[date |-> itemA.date, a |-> itemA, b |-> itemB[1]]>>
              ELSE <<>>)
                \o AlignLoop(Tail(keys), dataA, dataB)

_alignDataSeries(dataA, dataB) ==
    SortByDate(AlignLoop(MapKeys(dataA, {}), dataA, dataB))

(***************************************************************************)
(* Engine 3: SectorSpreadEngine                                            *)
(***************************************************************************)
RECURSIVE SectorSpreadLoop(_, _, _, _, _, _)
SectorSpreadLoop(alignedData, i, sector_a, sector_b, spread_threshold, days) ==
    IF ~(i < Len(alignedData) - days)
    THEN <<>>
    ELSE LET startA == alignedData[i + 1].a.close
             endA == alignedData[i + days + 1].a.close
             startB == alignedData[i + 1].b.close
             endB == alignedData[i + days + 1].b.close
             retA == PctReturn(startA, endA)
             retB == PctReturn(startB, endB)
             spread == RSub(retA, retB)
             match == [date |-> alignedData[i + days + 1].date,
                       sector_a |-> [symbol |-> sector_a, start |-> startA,
                                     end |-> endA, return |-> retA],
                       sector_b |-> [symbol |-> sector_b, start |-> startB,
                                     end |-> endB, return |-> retB],
                       spread |-> spread,
                       outperformer |-> IF RGt(spread, Zero) THEN sector_a ELSE sector_b]
         IN  (IF RGeq(RAbs(spread), RAbs(spread_threshold)) THEN <<match>> ELSE <<>>)
                \o SectorSpreadLoop(alignedData, i + 1, sector_a, sector_b,
                                    spread_threshold, days)

RECURSIVE MapAbsSpread(_)
MapAbsSpread(matches) ==
    IF matches = <<>> THEN <<>>
    ELSE <<RAbs(Head(matches).spread)>> \o MapAbsSpread(Tail(matches))

\* analyze(data, parameters) hands both arguments on; the function declares one
\* parameter, the options object, so it is the first argument (data) that is
\* destructured and the second is not read.  firstRejection says which of the two
\* concurrent fetches fails first when both fail.
_analyzeSectorSpread(data, parameters, market, firstRejection) ==
    IF IsNullish(data) THEN Threw(TypeErrorDestructure, <<>>)
    ELSE LET sector_a == Destructure(data, "sector_a", "XLK")
             sector_b == Destructure(data, "sector_b", "XLF")
             spread_threshold == Destructure(data, "spread_threshold", R(5, 1))
             days == Destructure(data, "days", 10)
             fetched == <<sector_a, sector_b>>
         IN  IF ~market[sector_a].ok /\ ~market[sector_b].ok
             THEN Threw(FetchErrorMessage(IF firstRejection = 1 THEN sector_a
                                          ELSE sector_b), fetched)
             ELSE IF ~market[sector_a].ok THEN Threw(FetchErrorMessage(sector_a), fetched)
             ELSE IF ~market[sector_b].ok THEN Threw(FetchErrorMessage(sector_b), fetched)
             ELSE LET alignedData == _alignDataSeries(market[sector_a].rows,
                                                      market[sector_b].rows)
                  IN  IF days < 0
                      \* alignedData[i + days] is undefined in the first pass
                      THEN Threw(TypeErrorMissingRow, fetched)
                      ELSE LET matches == SectorSpreadLoop(alignedData, 0, sector_a,
                                                sector_b, spread_threshold, days)
                           IN  Returned([matches |-> matches,
                                         summary |->
                                            [total_matches |-> Len(matches),
                                             avg_spread |-> Average(MapAbsSpread(matches)),
                                             criteria |-> <<sector_a, sector_b,
                                                            RAbs(spread_threshold), days>>]],
                                        fetched)

(***************************************************************************)
(* Engine 5: VolatilityEngine                                              *)
(***************************************************************************)
ReferenceErrorData == "ReferenceError: data is not defined"

\* As in SectorSpreadEngine the function declares the options object alone, so
\* the first argument is destructured.  After the volatility index is fetched the
\* body reads the name data, which no scope defines: the statement throws, and
\* the alignment and the scan after it never run.
_analyzeVolatility(data, parameters, market) ==
    IF IsNullish(data) THEN Threw(TypeErrorDestructure, <<>>)
    ELSE IF ~market["^VIX"].ok THEN Threw(FetchErrorMessage("^VIX"), <<"^VIX">>)
    ELSE Threw(ReferenceErrorData, <<"^VIX">>)

(***************************************************************************)
(* Engine 6: MacroEngine                                                   *)
(***************************************************************************)
currentMacro == [CPI |-> R(32, 10), DXY_YTD |-> R(28, 10), Interest_Rate |-> R(525, 100)]

\* One "if (x_threshold !== undefined)" block: the condition it appends, if any.
MacroCondition(options, key, metric, current) ==
    IF HasKey(options, key)
    THEN <<[metric |-> metric, threshold |-> options.props[key], current |-> current,
            met |-> RGeq(current, options.props[key])]>>
    ELSE <<>>

CountMet(conditions) == Cardinality({i \in DOMAIN conditions : conditions[i].met})

\* analyze(data, parameters) hands both arguments on and the function destructures
\* the first: the thresholds are read from data.
_analyzeMacro(data, parameters, now) ==
    IF IsNullish(data) THEN Threw(TypeErrorDestructure, <<>>)
    ELSE LET conditions ==
                MacroCondition(data, "cpi_threshold", "CPI", currentMacro.CPI)
                \o MacroCondition(data, "dxy_threshold", "DXY YTD", currentMacro.DXY_YTD)
                \o MacroCondition(data, "rate_threshold", "Fed Funds Rate",
                                  currentMacro.Interest_Rate)
             totalConditions == Len(conditions)
             conditionsMet == CountMet(conditions)
             allConditionsMet == conditionsMet = totalConditions /\ totalConditions > 0
         IN  Returned([matches |-> IF allConditionsMet
                                   THEN <<[date |-> now, signal |-> "Macro conditions met"]>>
                                   ELSE <<>>,
                       summary |-> [conditions_met |-> <<conditionsMet, totalConditions>>,
                                    signal |-> allConditionsMet,
                                    conditions |-> conditions,
                                    current_macro |-> currentMacro]],
                      <<>>)

(***************************************************************************)
(* Engine 4: MomentumEngine                                                *)
(***************************************************************************)
\* A loop that never finds a window too close to the last match
NoGapDays == 30 - 30

minGapDays == 30

TypeErrorNotIterable == "TypeError: data is not iterable"
TypeErrorSetSMA == "TypeError: Cannot set properties of undefined (setting 'sma')"

\* sum of result[j].close for j from from to to (0-based), added up by halves
RECURSIVE SumClose(_, _, _)
SumClose(rows, from, to) ==
    IF from > to THEN 0
    ELSE IF from = to THEN rows[from + 1].close
    ELSE SumClose(rows, from, (from + to) \div 2)
            + SumClose(rows, (from + to) \div 2 + 1, to)

\* result[i].sma = sum / period: the row object is the caller's own, now with an
\* sma field.
WithSMA(row, sma) ==
    [f \in DOMAIN row \cup {"sma"} |-> IF f = "sma" THEN sma ELSE row[f]]

\* The series after _calculateSMA(data, period), for period >= 1: the copy shares
\* its row objects with data, so this is also what data holds afterwards.
_calculateSMA(rows, period) ==
    [k \in 1..Len(rows) |->
        IF k - 1 >= period - 1
        THEN WithSMA(rows[k], R(SumClose(rows, k - period, k - 1), period))
        ELSE rows[k]]

InRange(rows, i) == 0 <= i /\ i < Len(rows)

\* close <= sma and close >= sma are false when sma is undefined
CloseLeqSMA(row) == "sma" \in DOMAIN row /\ RLeq(R(row.close, 1), row.sma)
CloseGeqSMA(row) == "sma" \in DOMAIN row /\ RGeq(R(row.close, 1), row.sma)

MaxOf(numbers) == CHOOSE x \in numbers : \A y \in numbers : y <= x
MinOf(numbers) == CHOOSE x \in numbers : \A y \in numbers : x <= y

\* The least and the greatest of a set of fractions in lowest terms
RMin(fractions) == CHOOSE x \in fractions : \A y \in fractions : RLeq(x, y)
RMax(fractions) == CHOOSE x \in fractions : \A y \in fractions : RGeq(x, y)

\* The inner loop of the bullish branch over the window j = i .. end - 1.  The
\* loop breaks at the first j that closes at or under its sma; passes holds the
\* j's it completes.  highestPrice after pass j is the highest close of i .. j
\* (startPrice is the close at i), and extremeValue ends as the lowest drawdown
\* of the passes completed, or 0.
BullishScan(rows, i, end) ==
    LET breaks == {j \in i..(end - 1) : CloseLeqSMA(rows[j + 1])}
        passes == IF breaks = {} THEN i..(end - 1) ELSE i..(MinOf(breaks) - 1)
        highestPrice(j) == MaxOf({rows[k + 1].close : k \in i..j})
        drawdown(j) == PctReturn(highestPrice(j), rows[j + 1].close)
    IN  [isValidPeriod |-> breaks = {},
         extremeValue |-> RMin({Zero} \cup {drawdown(j) : j \in passes})]

\* The inner loop of the bearish branch, likewise: it breaks at the first j that
\* closes at or over its sma, and extremeValue ends as the highest rally.
BearishScan(rows, i, end) ==
    LET breaks == {j \in i..(end - 1) : CloseGeqSMA(rows[j + 1])}
        passes == IF breaks = {} THEN i..(end - 1) ELSE i..(MinOf(breaks) - 1)
        lowestPrice(j) == MinOf({rows[k + 1].close : k \in i..j})
        rally(j) == PctReturn(lowestPrice(j), rows[j + 1].close)
    IN  [isValidPeriod |-> breaks = {},
         extremeValue |-> RMax({Zero} \cup {rally(j) : j \in passes})]

\* The outer loop from start index i on.  lastMatchDate is <<>> for null and
\* <<date>> otherwise.  The result tells whether a row read was out of range.
RECURSIVE MomentumLoop(_, _, _, _, _, _, _)
MomentumLoop(rows, i, days, momentum_type, threshold, matches, lastMatchDate) ==
    IF ~(i < Len(rows) - days) THEN [threw |-> FALSE, matches |-> matches]
    ELSE IF ~InRange(rows, i + days) THEN [threw |-> TRUE, matches |-> matches]
    ELSE LET currentDate == rows[i + days + 1].date
         IN  IF lastMatchDate # <<>>
                /\ currentDate - lastMatchDate[1] < minGapDays * TicksPerDay
             THEN MomentumLoop(rows, i + 1, days, momentum_type, threshold, matches,
                               lastMatchDate)
             ELSE IF ~InRange(rows, i) THEN [threw |-> TRUE, matches |-> matches]
             ELSE LET startPrice == rows[i + 1].close
                      endPrice == rows[i + days + 1].close
                      up == BullishScan(rows, i, i + days)
                      down == BearishScan(rows, i, i + days)
                      bullishMatch ==
                        /\ momentum_type = "bullish"
                        /\ up.isValidPeriod
                        /\ RGeq(up.extremeValue, RNeg(RAbs(threshold)))
                      bearishMatch ==
                        /\ momentum_type = "bearish"
                        /\ down.isValidPeriod
                        /\ RLeq(down.extremeValue, RAbs(threshold))
                      match ==
                        IF bullishMatch
                        THEN [date |-> currentDate, startPrice |-> startPrice,
                              endPrice |-> endPrice, maxDrawdown |-> up.extremeValue,
                              periodReturn |-> PctReturn(startPrice, endPrice),
                              daysAboveSMA |-> days]
                        ELSE [date |-> currentDate, startPrice |-> startPrice,
                              endPrice |-> endPrice, maxRally |-> down.extremeValue,
                              periodReturn |-> PctReturn(startPrice, endPrice),
                              daysBelowSMA |-> days]
                  IN  IF bullishMatch \/ bearishMatch
                      THEN MomentumLoop(rows, i + 1, days, momentum_type, threshold,
                                        Append(matches, match), <<currentDate>>)
                      ELSE MomentumLoop(rows, i + 1, days, momentum_type, threshold,
                                        matches, lastMatchDate)

RECURSIVE MapPeriodReturn(_)
MapPeriodReturn(matches) ==
    IF matches = <<>> THEN <<>>
    ELSE <<Head(matches).periodReturn>> \o MapPeriodReturn(Tail(matches))

_analyzeMomentum(data, parameters) ==
    IF IsNullish(parameters) THEN Threw(TypeErrorDestructure, <<>>)
    ELSE LET sma_period == Destructure(parameters, "sma_period", 20)
             days == Destructure(parameters, "days", 60)
             momentum_type == Destructure(parameters, "momentum_type", "bullish")
             threshold == Destructure(parameters, "threshold", R(12, 10))
         IN  IF data.tag # "array" THEN Threw(TypeErrorNotIterable, <<>>)
             ELSE IF sma_period <= 0 THEN Threw(TypeErrorSetSMA, <<>>)
             ELSE LET dataWithSMA == _calculateSMA(data.rows, sma_period)
                      loop == MomentumLoop(dataWithSMA, sma_period, days, momentum_type,
                                           threshold, <<>>, <<>>)
                  IN  IF loop.threw THEN Threw(TypeErrorMissingRow, <<>>)
                      ELSE Returned([matches |-> loop.matches,
                                     summary |->
                                        [total_matches |-> Len(loop.matches),
                                         momentum_type |-> momentum_type,
                                         avg_return |->
                                            Average(MapPeriodReturn(loop.matches)),
                                         criteria |-> <<momentum_type, days, sma_period>>]],
                                    <<>>)

\* What the caller's series holds after the call: the rows _calculateSMA wrote to.
DataAfterMomentum(data, parameters) ==
    IF IsNullish(parameters) \/ data.tag # "array" THEN data
    ELSE LET sma_period == Destructure(parameters, "sma_period", 20)
         IN  IF sma_period <= 0 THEN data
             ELSE JSArray(_calculateSMA(data.rows, sma_period))

(***************************************************************************)
(* JavaScript Date arithmetic used by the TOY engine.  A Date is its       *)
(* timestamp in ticks since 1970-01-01T00:00Z; tz is the offset of the     *)
(* server's local time from UTC, in ticks (local = UTC + tz).              *)
(***************************************************************************)
IsLeapYear(y) == (y % 4 = 0 /\ y % 100 # 0) \/ y % 400 = 0

LeapYearsBefore(y) == ((y - 1) \div 4) - ((y - 1) \div 100) + ((y - 1) \div 400)

DaysBeforeYear(y) == 365 * (y - 1970) + LeapYearsBefore(y) - LeapYearsBefore(1970)

DaysInMonth(y, m) ==
    IF m = 2 THEN (IF IsLeapYear(y) THEN 29 ELSE 28)
    ELSE IF m \in {4, 6, 9, 11} THEN 30 ELSE 31

\* Days of year y before its month m
DaysBeforeMonth(y, m) ==
    <<0, 31, 59, 90, 120, 151, 181, 212, 243, 273, 304, 334>>[m]
        + (IF m > 2 /\ IsLeapYear(y) THEN 1 ELSE 0)

\* Days from 1970-01-01 to day d of month m of year y; d past the end of the
\* month runs on into the next months, as Date normalises it.
DayNumber(y, m, d) == DaysBeforeYear(y) + DaysBeforeMonth(y, m) + d - 1

YearOfDay(n) ==
    CHOOSE y \in (1970 + n \div 366)..(1970 + n \div 365 + 1) :
        DaysBeforeYear(y) <= n /\ n < DaysBeforeYear(y + 1)

\* The month of year y that its dayOfYear-th day (from 0) falls in
MonthOfYearDay(y, dayOfYear) ==
    CHOOSE m \in 1..12 :
        /\ DaysBeforeMonth(y, m) <= dayOfYear
        /\ dayOfYear < DaysBeforeMonth(y, m) + DaysInMonth(y, m)

MonthOfDay(n) ==
    LET y == YearOfDay(n)
    IN  MonthOfYearDay(y, n - DaysBeforeYear(y))

\* The local calendar day a timestamp falls on, and the time of day left over.
LocalDay(date, tz) == (date + tz) \div TicksPerDay
LocalTimeOfDay(date, tz) == (date + tz) % TicksPerDay

\* new Date(year, month - 1, day): local midnight
NewDate(year, month, day, tz) == DayNumber(year, month, day) * TicksPerDay - tz

\* date.getDate(): day of the month, local time
getDate(date, tz) ==
    LET n == LocalDay(date, tz)
        y == YearOfDay(n)
        dayOfYear == n - DaysBeforeYear(y)
    IN  dayOfYear - DaysBeforeMonth(y, MonthOfYearDay(y, dayOfYear)) + 1

\* date.setDate(dayOfMonth): that day of date's own month (running over into the
\* following months when past its end), same local time of day
setDate(date, dayOfMonth, tz) ==
    LET n == LocalDay(date, tz)
        y == YearOfDay(n)
        firstOfMonth == DaysBeforeYear(y)
                            + DaysBeforeMonth(y, MonthOfYearDay(y, n - DaysBeforeYear(y)))
    IN  (firstOfMonth + dayOfMonth - 1) * TicksPerDay + LocalTimeOfDay(date, tz) - tz

\* date.getDay(): 0 is Sunday; 1970-01-01 was a Thursday
getDay(date, tz) == (LocalDay(date, tz) + 4) % 7

(***************************************************************************)
(* TOYBarometerEngine.  toy_start and toy_end are strings, kept as the     *)
(* sequence of their characters.                                           *)
(***************************************************************************)
maxSearchDays == 10

Digits == {"0", "1", "2", "3", "4", "5", "6", "7", "8", "9"}

DigitValue(c) ==
    CASE c = "0" -> 0 [] c = "1" -> 1 [] c = "2" -> 2 [] c = "3" -> 3 [] c = "4" -> 4
      [] c = "5" -> 5 [] c = "6" -> 6 [] c = "7" -> 7 [] c = "8" -> 8 [] c = "9" -> 9

IsDigits(str) == \A i \in DOMAIN str : str[i] \in Digits

\* /^\d{1,2}-\d{1,2}$/.test(str)
datePattern(str) ==
    \E k \in DOMAIN str :
        /\ str[k] = "-"
        /\ k - 1 \in {1, 2} /\ IsDigits(SubSeq(str, 1, k - 1))
        /\ Len(str) - k \in {1, 2} /\ IsDigits(SubSeq(str, k + 1, Len(str)))

\* parseInt of a string of digits
RECURSIVE parseInt(_)
parseInt(str) ==
    IF str = <<>> THEN 0
    ELSE 10 * parseInt(SubSeq(str, 1, Len(str) - 1)) + DigitValue(str[Len(str)])

\* str.split('-').map(x => parseInt(x)), for a string that matches datePattern
SplitMonthDay(str) ==
    LET k == CHOOSE i \in DOMAIN str : str[i] = "-"
    IN  <<parseInt(SubSeq(str, 1, k - 1)), parseInt(SubSeq(str, k + 1, Len(str)))>>

validateTOYDates(toyStart, toyEnd) ==
    LET formatErrors ==
            (IF ~datePattern(toyStart)
             THEN <<"TOY start date must be in MM-DD format (e.g., 11-19)">> ELSE <<>>)
            \o (IF ~datePattern(toyEnd)
                THEN <<"TOY end date must be in MM-DD format (e.g., 01-19)">> ELSE <<>>)
    IN  IF formatErrors # <<>> THEN formatErrors
        ELSE LET startMonth == SplitMonthDay(toyStart)[1]
                 startDay == SplitMonthDay(toyStart)[2]
                 endMonth == SplitMonthDay(toyEnd)[1]
                 endDay == SplitMonthDay(toyEnd)[2]
             IN  (IF startMonth < 1 \/ startMonth > 12
                  THEN <<"Start month must be between 1-12">> ELSE <<>>)
                 \o (IF endMonth < 1 \/ endMonth > 12
                     THEN <<"End month must be between 1-12">> ELSE <<>>)
                 \o (IF startDay < 1 \/ startDay > 31
                     THEN <<"Start day must be between 1-31">> ELSE <<>>)
                 \o (IF endDay < 1 \/ endDay > 31
                     THEN <<"End day must be between 1-31">> ELSE <<>>)

\* errors.join(', ')
RECURSIVE Join(_)
Join(errors) ==
    IF Len(errors) = 1 THEN errors[1] ELSE errors[1] \o ", " \o Join(Tail(errors))

\* The keys of dataByDate: the UTC days the series has a row for.
TradingDays(rows) == {ToISODate(rows[i].date) : i \in DOMAIN rows}

\* dataByDate.get(day): the last row of that day, with its index in the series
DataByDate(rows, day) ==
    LET index == CHOOSE i \in DOMAIN rows :
                    /\ ToISODate(rows[i].date) = day
                    /\ \A j \in DOMAIN rows : ToISODate(rows[j].date) = day => j <= i
    IN  [row |-> rows[index], index |-> index - 1]

\* The for loop of findNearestTradingDay (direction 'after') from pass i on:
\* searchDate carries over from pass to pass, and each pass sets its day of the
\* month to targetDate's day of the month plus i.
RECURSIVE SearchLoop(_, _, _, _, _)
SearchLoop(targetDate, searchDate, i, days, tz) ==
    IF i > maxSearchDays THEN <<>>
    ELSE LET next == setDate(searchDate, getDate(targetDate, tz) + i, tz)
         IN  IF ToISODate(next) \in days THEN <<ToISODate(next)>>
             ELSE SearchLoop(targetDate, next, i + 1, days, tz)

\* <<day>> for the day found, <<>> for null
findNearestTradingDay(targetDate, days, tz) ==
    IF ToISODate(targetDate) \in days THEN <<ToISODate(targetDate)>>
    ELSE SearchLoop(targetDate, targetDate, 1, days, tz)

mapDaysToLabel(days) ==
    CASE days = 1 -> "1D" [] days = 2 -> "2D" [] days = 3 -> "3D" [] days = 4 -> "4D"
      [] days = 5 -> "1W" [] days = 10 -> "2W" [] days = 15 -> "3W"
      [] days \in {20, 21} -> "1M" [] days \in {40, 42} -> "2M"
      [] days \in {60, 63} -> "3M" [] days = 126 -> "6M" [] days = 252 -> "12M"
      [] OTHER -> ToString(days) \o "D"

\* returns[key] = value
SetKey(obj, key, value) ==
    [k \in DOMAIN obj \cup {key} |-> IF k = key THEN value ELSE obj[k]]

\* forwardDays.forEach from the k-th offset on; a return is <<r>>, null is <<>>.
RECURSIVE ForwardLoop(_, _, _, _, _)
ForwardLoop(rows, startIndex, forwardDays, k, returns) ==
    IF k > Len(forwardDays) THEN returns
    ELSE LET days == forwardDays[k]
             futureIndex == startIndex + days
             key == mapDaysToLabel(days) \o "_return"
             value == IF futureIndex < Len(rows)
                      THEN <<PctReturn(rows[startIndex + 1].close,
                                       rows[futureIndex + 1].close)>>
                      ELSE <<>>
         IN  ForwardLoop(rows, startIndex, forwardDays, k + 1,
                         SetKey(returns, key, value))

calculateForwardReturns(rows, startIndex, forwardDays) ==
    ForwardLoop(rows, startIndex, forwardDays, 1, <<>>)

\* The while loop of getTradingDaysBetween from currentDate on.
RECURSIVE TradingDaysLoop(_, _, _)
TradingDaysLoop(currentDate, endDate, tz) ==
    IF ~(currentDate <= endDate) THEN 0
    ELSE (IF getDay(currentDate, tz) \notin {0, 6} THEN 1 ELSE 0)
            + TradingDaysLoop(setDate(currentDate, getDate(currentDate, tz) + 1, tz),
                              endDate, tz)

getTradingDaysBetween(startDate, endDate, tz) == TradingDaysLoop(startDate, endDate, tz)

\* analyzeTOYPeriod once both trading days are found: the period it returns.
TOYPeriod(year, rows, threshold, forwardDays, tz, startData, endData) ==
    LET toyReturn == PctReturn(startData.row.close, endData.row.close)
        signal == IF RGeq(toyReturn, threshold) THEN "Bullish"
                  ELSE IF RLt(toyReturn, Zero) THEN "Bearish"
                  ELSE "Neutral"
        forwardReturns == calculateForwardReturns(rows, endData.index, forwardDays)
        event ==
            forwardReturns @@
            [date |-> endData.row.date,
             year |-> year,
             toy_start_date |-> startData.row.date,
             toy_end_date |-> endData.row.date,
             toy_return |-> toyReturn,
             signal |-> signal,
             start_price |-> startData.row.close,
             end_price |-> endData.row.close,
             period_days |-> getTradingDaysBetween(startData.row.date,
                                                   endData.row.date, tz)]
    IN  [threw |-> FALSE, message |-> NULL, event |-> event,
         toyReturn |-> toyReturn, signal |-> signal,
         forwardReturns |-> forwardReturns]

\* A window that always ends in the year it starts in.
analyzeTOYPeriodSameYear(year, toyStartMD, toyEndMD, rows, threshold, forwardDays, tz) ==
    LET startMonth == SplitMonthDay(toyStartMD)[1]
        startDay == SplitMonthDay(toyStartMD)[2]
        endMonth == SplitMonthDay(toyEndMD)[1]
        endDay == SplitMonthDay(toyEndMD)[2]
        toyStart == NewDate(year, startMonth, startDay, tz)
        toyEnd == NewDate(year, endMonth, endDay, tz)
        startTradingDay == findNearestTradingDay(toyStart, TradingDays(rows), tz)
        endTradingDay == findNearestTradingDay(toyEnd, TradingDays(rows), tz)
    IN  IF startTradingDay = <<>> \/ endTradingDay = <<>>
        THEN [threw |-> TRUE,
              message |-> "No trading days found for TOY period " \o ToString(year)]
        ELSE TOYPeriod(year, rows, threshold, forwardDays, tz,
                       DataByDate(rows, startTradingDay[1]),
                       DataByDate(rows, endTradingDay[1]))

\* One year of the TOY analysis: it throws (the year is skipped) or returns the
\* period.
analyzeTOYPeriod(year, toyStartMD, toyEndMD, rows, threshold, forwardDays, tz) ==
    LET startMonth == SplitMonthDay(toyStartMD)[1]
        startDay == SplitMonthDay(toyStartMD)[2]
        endMonth == SplitMonthDay(toyEndMD)[1]
        endDay == SplitMonthDay(toyEndMD)[2]
        toyStartYear == year
        toyEndYear == IF endMonth < startMonth THEN year + 1 ELSE year
        toyStart == NewDate(toyStartYear, startMonth, startDay, tz)
        toyEnd == NewDate(toyEndYear, endMonth, endDay, tz)
        startTradingDay == findNearestTradingDay(toyStart, TradingDays(rows), tz)
        endTradingDay == findNearestTradingDay(toyEnd, TradingDays(rows), tz)
    IN  IF startTradingDay = <<>> \/ endTradingDay = <<>>
        THEN [threw |-> TRUE,
              message |-> "No trading days found for TOY period " \o ToString(year)]
        ELSE TOYPeriod(year, rows, threshold, forwardDays, tz,
                       DataByDate(rows, startTradingDay[1]),
                       DataByDate(rows, endTradingDay[1]))

\* A loop that gives up on the years left once a year has to be skipped.
YearStepAborts(year, toyResult, rest) ==
    IF toyResult.threw
    THEN [toyPeriods |-> <<>>,
          log |-> <<[level |-> "warn",
                     text |-> "Skipping TOY " \o ToString(year) \o ": "
                               \o toyResult.message]>>]
    ELSE [toyPeriods |->
               <<[event |-> toyResult.event, toyReturn |-> toyResult.toyReturn,
                  signal |-> toyResult.signal,
                  forwardReturns |-> toyResult.forwardReturns]>>
               \o rest.toyPeriods,
          log |-> rest.log]

\* One pass of the loop over the years: the period is pushed, or the year is
\* skipped with a warning; rest is what the passes for the later years leave.
YearStep(year, toyResult, rest) ==
    IF toyResult.threw
    THEN [toyPeriods |-> rest.toyPeriods,
          log |-> <<[level |-> "warn",
                     text |-> "Skipping TOY " \o ToString(year) \o ": "
                               \o toyResult.message]>> \o rest.log]
    ELSE [toyPeriods |->
               <<[event |-> toyResult.event, toyReturn |-> toyResult.toyReturn,
                  signal |-> toyResult.signal,
                  forwardReturns |-> toyResult.forwardReturns]>>
               \o rest.toyPeriods,
          log |-> rest.log]

RECURSIVE YearLoop(_, _, _, _, _, _, _, _)
YearLoop(year, last_year, toy_start, toy_end, rows, threshold, forward_days, tz) ==
    IF year > last_year THEN [toyPeriods |-> <<>>, log |-> <<>>]
    ELSE YearStep(year,
                  analyzeTOYPeriod(year, toy_start, toy_end, rows, threshold,
                                   forward_days, tz),
                  YearLoop(year + 1, last_year, toy_start, toy_end, rows, threshold,
                           forward_days, tz))

RECURSIVE MapToyReturn(_)
MapToyReturn(periods) ==
    IF periods = <<>> THEN <<>>
    ELSE <<Head(periods).toyReturn>> \o MapToyReturn(Tail(periods))

\* periods.map(p => p.event[key]).filter(r => r !== null && r !== undefined)
RECURSIVE EventReturns(_, _)
EventReturns(periods, key) ==
    IF periods = <<>> THEN <<>>
    ELSE (IF key \in DOMAIN Head(periods).event /\ Head(periods).event[key] # <<>>
          THEN <<Head(periods).event[key][1]>> ELSE <<>>)
            \o EventReturns(Tail(periods), key)

CountPositive(returns) == Cardinality({i \in DOMAIN returns : RGt(returns[i], Zero)})

\* Index of the first period with the highest return, and of the last period
\* with the lowest: the ends of the stable sort by return, descending.
BestIndex(toyPeriods) ==
    CHOOSE i \in DOMAIN toyPeriods :
        \A j \in DOMAIN toyPeriods :
            \/ RGt(toyPeriods[i].toyReturn, toyPeriods[j].toyReturn)
            \/ (~RLt(toyPeriods[i].toyReturn, toyPeriods[j].toyReturn) /\ i <= j)

WorstIndex(toyPeriods) ==
    CHOOSE i \in DOMAIN toyPeriods :
        \A j \in DOMAIN toyPeriods :
            \/ RLt(toyPeriods[i].toyReturn, toyPeriods[j].toyReturn)
            \/ (~RGt(toyPeriods[i].toyReturn, toyPeriods[j].toyReturn) /\ i >= j)

\* The numbers the insight sentence is written from.
generateTOYInsight(toyPeriods, threshold) ==
    LET IsBullish(p) == RGeq(p.toyReturn, threshold)
        totalCount == Len(toyPeriods)
    IN  [bullishRate |-> R(100 * Len(SelectSeq(toyPeriods, IsBullish)), totalCount),
         totalCount |-> totalCount,
         avgTOYReturn |-> RDivInt(RSum(MapToyReturn(toyPeriods)), totalCount),
         bestYear |-> toyPeriods[BestIndex(toyPeriods)].event.year,
         bestReturn |-> toyPeriods[BestIndex(toyPeriods)].toyReturn,
         worstYear |-> toyPeriods[WorstIndex(toyPeriods)].event.year,
         worstReturn |-> toyPeriods[WorstIndex(toyPeriods)].toyReturn]

ForwardPeriods == {"1M_return", "3M_return", "6M_return", "12M_return"}

\* period.replace('_return', '')
StripReturn(period) ==
    CASE period = "1M_return" -> "1M" [] period = "3M_return" -> "3M"
      [] period = "6M_return" -> "6M" [] period = "12M_return" -> "12M"

\* The class body defines calculateTOYSummary twice; the later definition is the
\* method.  Rates and averages are kept as the fractions their strings are
\* formatted from.
calculateTOYSummary(toyPeriods, threshold) ==
    IF Len(toyPeriods) = 0 THEN [message |-> "No TOY periods analyzed"]
    ELSE LET IsBullish(p) == RGeq(p.toyReturn, threshold)
             IsBearish(p) == RLt(p.toyReturn, Zero)
             IsNeutral(p) == RGeq(p.toyReturn, Zero) /\ RLt(p.toyReturn, threshold)
             bullishPeriods == SelectSeq(toyPeriods, IsBullish)
             bearishPeriods == SelectSeq(toyPeriods, IsBearish)
             neutralPeriods == SelectSeq(toyPeriods, IsNeutral)
             PeriodsOf(signalType) ==
                CASE signalType = "bullish" -> bullishPeriods
                  [] signalType = "bearish" -> bearishPeriods
                  [] signalType = "neutral" -> neutralPeriods
             stats == {<<t, p>> \in {"bullish", "bearish", "neutral"} \X ForwardPeriods :
                          EventReturns(PeriodsOf(t), p) # <<>>}
             AvgKey(st) == st[1] \o "_" \o StripReturn(st[2]) \o "_avg"
             WinKey(st) == st[1] \o "_" \o StripReturn(st[2]) \o "_win_rate"
             base == [bullish_periods |-> Len(bullishPeriods),
                      bearish_periods |-> Len(bearishPeriods),
                      neutral_periods |-> Len(neutralPeriods),
                      bullish_rate |-> R(100 * Len(bullishPeriods), Len(toyPeriods)),
                      bearish_rate |-> R(100 * Len(bearishPeriods), Len(toyPeriods)),
                      historical_insight |-> generateTOYInsight(toyPeriods, threshold)]
             avgBullish == IF Len(bullishPeriods) > 0
                           THEN [avg_bullish_toy_return |->
                                    Average(MapToyReturn(bullishPeriods))]
                           ELSE <<>>
             avgBearish == IF Len(bearishPeriods) > 0
                           THEN [avg_bearish_toy_return |->
                                    Average(MapToyReturn(bearishPeriods))]
                           ELSE <<>>
             avgs == [k \in {AvgKey(st) : st \in stats} |->
                        LET st == CHOOSE x \in stats : AvgKey(x) = k
                        IN  Average(EventReturns(PeriodsOf(st[1]), st[2]))]
             wins == [k \in {WinKey(st) : st \in stats} |->
                        LET st == CHOOSE x \in stats : WinKey(x) = k
                            returns == EventReturns(PeriodsOf(st[1]), st[2])
                        IN  R(100 * CountPositive(returns), Len(returns))]
         IN  base @@ avgBullish @@ avgBearish @@ avgs @@ wins

RECURSIVE MapEvent(_)
MapEvent(periods) ==
    IF periods = <<>> THEN <<>> ELSE <<Head(periods).event>> \o MapEvent(Tail(periods))

TOYFailure(health, message, fetched) ==
    Completed([health EXCEPT !.errorCount = @ + 1, !.lastError = message,
                             !.isHealthy = FALSE],
              [success |-> FALSE, data |-> NoData,
               error |-> "TOY analysis failed: " \o message,
               fallback |-> "TOY engine is temporarily unavailable"],
              fetched,
              <<[level |-> "error", text |-> "TOY analysis failed: " \o message]>>)

\* The success result of analyze, from what the loop over the years left.
TOYSuccess(health, parameters, ticker, first_year, last_year, toy_start, toy_end, threshold, loop) ==
    Completed(
        [health EXCEPT !.successCount = @ + 1, !.isHealthy = TRUE, !.lastError = NULL],
        [success |-> TRUE,
         data |-> [matches |-> MapEvent(loop.toyPeriods),
                   summary |->
                        calculateTOYSummary(loop.toyPeriods, threshold) @@
                        [total_periods |-> Len(loop.toyPeriods),
                         analysis_years |-> <<first_year, last_year>>,
                         toy_window |-> <<toy_start, toy_end>>,
                         threshold |-> threshold,
                         created_by |-> "Wayne Whaley TOY methodology"],
                   toyPeriods |-> loop.toyPeriods,
                   metadata |-> [strategy |-> "toy_barometer",
                                 ticker |-> ticker,
                                 parameters |-> parameters]],
         error |-> NULL, fallback |-> NULL],
        <<ticker>>, loop.log)

\* TOYBarometerEngine.analyze(parameters).  currentYear is new Date().getFullYear().
TOYAnalyze(health, parameters, market, tz, currentYear) ==
    IF IsNullish(parameters) THEN TOYFailure(health, TypeErrorDestructure, <<>>)
    ELSE LET ticker == Destructure(parameters, "ticker", "SPY")
             first_year == Destructure(parameters, "first_year", 2000)
             last_year == Destructure(parameters, "last_year", currentYear)
             toy_start == Destructure(parameters, "toy_start", <<"1", "1", "-", "1", "9">>)
             toy_end == Destructure(parameters, "toy_end", <<"0", "1", "-", "1", "9">>)
             threshold == Destructure(parameters, "threshold", R(3, 1))
             forward_days == Destructure(parameters, "forward_days",
                                         <<5, 10, 15, 20, 40, 63, 126, 252>>)
             dateErrors == validateTOYDates(toy_start, toy_end)
         IN  IF Len(dateErrors) > 0
             THEN TOYFailure(health, "Invalid TOY dates: " \o Join(dateErrors), <<>>)
             ELSE IF ~market[ticker].ok
             THEN TOYFailure(health, FetchErrorMessage(ticker), <<ticker>>)
             ELSE IF Len(market[ticker].rows) = 0
             THEN TOYFailure(health, "No data available for " \o ticker, <<ticker>>)
             ELSE TOYSuccess(health, parameters, ticker, first_year, last_year,
                             toy_start, toy_end, threshold,
                             YearLoop(first_year, last_year, toy_start, toy_end,
                                      market[ticker].rows, threshold, forward_days, tz))

(***************************************************************************)
(* The market-data provider's states                                       *)
(***************************************************************************)
PricePoint(date, open, close) ==
    [date |-> date, open |-> open,
     high |-> IF open > close THEN open ELSE close,
     low |-> IF open < close THEN open ELSE close,
     close |-> close, volume |-> 1000]

\* A series: bar k opens at bars[k][1] and closes at bars[k][2] on day days[k],
\* stamped tick ticks into the UTC day.
Series(days, tick, bars) ==
    [k \in 1..Len(bars) |->
        PricePoint(days[k] * TicksPerDay + tick, bars[k][1], bars[k][2])]

\* The days first, first + 1, ..., first + n - 1
DaysFrom(first, n) == [k \in 1..n |-> first + k - 1]

Tickers == {"SPY", "XLK", "XLF", "XLE", "XLU", "^VIX"}

\* Four sessions around a 12-28 to 01-04 window
ToyDays ==
    <<DayNumber(2000, 12, 28), DayNumber(2000, 12, 29),
      DayNumber(2001, 1, 4), DayNumber(2001, 1, 5)>>

Flat == Series(ToyDays, 0, <<<<100, 100>>, <<100, 100>>, <<100, 100>>, <<100, 100>>>>)

CalmMarket ==
    [t \in Tickers |->
        CASE t = "SPY" ->
                FetchOk(Series(ToyDays, 0,
                               <<<<100, 100>>, <<102, 101>>, <<103, 104>>, <<104, 105>>>>))
          [] t = "XLE" ->
                FetchOk(Series(ToyDays, 0,
                               <<<<100, 100>>, <<100, 110>>, <<110, 110>>, <<110, 99>>>>))
          [] t = "^VIX" ->
                FetchOk(Series(ToyDays, 0,
                               <<<<30, 30>>, <<30, 31>>, <<31, 20>>, <<20, 30>>>>))
          [] OTHER -> FetchOk(Flat)]

DownMarket == [t \in Tickers |-> FetchFails]
PartialMarket == [t \in Tickers |-> IF t = "SPY" THEN CalmMarket[t] ELSE FetchFails]
EmptyMarket == [t \in Tickers |-> FetchOk(<<>>)]

\* The provider's answers in the state a request names.
MarketData(market) ==
    CASE market = "calm" -> CalmMarket
      [] market = "down" -> DownMarket
      [] market = "empty" -> EmptyMarket
      [] market = "partial" -> PartialMarket

(***************************************************************************)
(* Calls.  A request names the operation (op "run": the coordinator's      *)
(* runEventAnalysis(eventType, ticker, parameters); op "analyze": the      *)
(* analyze method of the engine registered for eventType, called with      *)
(* (data, parameters), or with (parameters) for the TOY engine) and fixes  *)
(* what the environment answers while it runs: the provider's answer per   *)
(* ticker (market names one of the provider's states, MarketData gives    *)
(* its answers), which of two failing concurrent fetches fails first, the  *)
(* clock and the server's time zone.                                       *)
(***************************************************************************)
NoRequest ==
    [op |-> "none", eventType |-> NULL, ticker |-> NULL, data |-> JSUndefined,
     parameters |-> JSUndefined, market |-> NULL, firstRejection |-> 1, now |-> 0,
     tz |-> 0]

\* new Date().getFullYear()
CurrentYear(req) == YearOfDay(LocalDay(req.now, req.tz))

\* The analyze method of each engine class.  req fixes what the environment
\* answers during the call.
PercentMoveEngine_analyze(health, data, parameters) ==
    safeExecute(health, EngineName("PERCENT_MOVE"), _analyzePercentMove(data, parameters))

ReversalEngine_analyze(health, data, parameters) ==
    safeExecute(health, EngineName("REVERSAL"), _analyzeReversal(data, parameters))

SectorSpreadEngine_analyze(health, data, parameters, req) ==
    safeExecute(health, EngineName("SECTOR_SPREAD"),
                _analyzeSectorSpread(data, parameters, MarketData(req.market),
                                     req.firstRejection))

MomentumEngine_analyze(health, data, parameters) ==
    safeExecute(health, EngineName("MOMENTUM_BULLISH"), _analyzeMomentum(data, parameters))

VolatilityEngine_analyze(health, data, parameters, req) ==
    safeExecute(health, EngineName("VOLATILITY_EVENT"),
                _analyzeVolatility(data, parameters, MarketData(req.market)))

MacroEngine_analyze(health, data, parameters, req) ==
    safeExecute(health, EngineName("MACRO_EVENT"), _analyzeMacro(data, parameters, req.now))

TOYBarometerEngine_analyze(health, parameters, req) ==
    TOYAnalyze(health, parameters, MarketData(req.market), req.tz, CurrentYear(req))

\* engine.analyze(data, parameters) of the engine registered for eventType
EngineAnalyze(eventType, health, data, parameters, req) ==
    CASE eventType = "PERCENT_MOVE" -> PercentMoveEngine_analyze(health, data, parameters)
      [] eventType = "REVERSAL" -> ReversalEngine_analyze(health, data, parameters)
      [] eventType = "SECTOR_SPREAD" ->
            SectorSpreadEngine_analyze(health, data, parameters, req)
      [] eventType \in {"MOMENTUM_BULLISH", "MOMENTUM_BEARISH"} ->
            MomentumEngine_analyze(health, data, parameters)
      [] eventType = "VOLATILITY_EVENT" ->
            VolatilityEngine_analyze(health, data, parameters, req)
      [] eventType = "MACRO_EVENT" -> MacroEngine_analyze(health, data, parameters, req)

\* The caller's series after the call: only MomentumEngine writes to its rows.
DataAfter(eventType, data, parameters) ==
    IF eventType \in {"MOMENTUM_BULLISH", "MOMENTUM_BEARISH"}
    THEN DataAfterMomentum(data, parameters)
    ELSE data

(***************************************************************************)
(* EventEngineCoordinator.runEventAnalysis                                 *)
(***************************************************************************)
\* What one run leaves behind.  engines is the registry's health fields after the
\* run; invoked lists the engines whose analyze was called; returned is
\* result.data when the run returns; fallback is the suggestion string the
\* failure handed to the caller carries, NULL for none.
RunOutcome(raised, message, returned, fallback, engs, call, invoked, fetched, parametersAfter, dataAfter) ==
    [raised |-> raised, raisedMessage |-> message, returned |-> returned,
     fallback |-> fallback, result |-> call.result, engines |-> engs,
     invoked |-> invoked, fetched |-> fetched, log |-> call.log,
     parametersAfter |-> parametersAfter, dataAfter |-> dataAfter]

\* A coordinator that books a request it could not dispatch as a failure of
\* every registered engine.
NotDispatchedBooksFailure(engs, message, fetched, parameters) ==
    RunOutcome(TRUE, message, NoData, NULL,
               [t \in EventTypes |->
                    [engs[t] EXCEPT !.errorCount = @ + 1, !.lastError = message,
                                    !.isHealthy = FALSE]],
               Completed(NewEngine, NoResult, <<>>, <<>>),
               <<>>, fetched, parameters, JSUndefined)

\* A run that ends before any engine is called.
NotDispatched(engs, message, fetched, parameters) ==
    RunOutcome(TRUE, message, NoData, NULL, engs,
               Completed(NewEngine, NoResult, <<>>, <<>>),
               <<>>, fetched, parameters, JSUndefined)

\* if (!result.success) throw new Error(result.error); return result.data
AfterAnalyze(engs, eventType, call, fetched, parametersAfter, dataAfter) ==
    LET after == [engs EXCEPT ![eventType] = call.health]
    IN  IF call.raised
        THEN RunOutcome(TRUE, call.raisedMessage, NoData, NULL, after, call,
                        <<eventType>>, fetched \o call.fetched, parametersAfter, dataAfter)
        ELSE IF ~call.result.success
        THEN RunOutcome(TRUE, call.result.error, NoData, NULL, after, call,
                        <<eventType>>, fetched \o call.fetched, parametersAfter, dataAfter)
        ELSE RunOutcome(FALSE, NULL, call.result.data, NULL, after, call,
                        <<eventType>>, fetched \o call.fetched, parametersAfter, dataAfter)

\* { ticker, ...parameters }
SpreadOverTicker(ticker, parameters) ==
    JSObject((IF parameters.tag = "object" THEN parameters.props ELSE <<>>)
             @@ [ticker |-> ticker])

\* parameters.momentum_type = 'bullish' | 'bearish'
SetMomentumType(parameters, momentum_type) ==
    JSObject(SetKey(parameters.props, "momentum_type", momentum_type))

TypeErrorSetMomentumType ==
    "TypeError: Cannot set properties of null or undefined (setting 'momentum_type')"

runEventAnalysis(engs, req) ==
    LET eventType == req.eventType
        ticker == req.ticker
        parameters == req.parameters
    IN  IF eventType \notin EventTypes
        THEN NotDispatched(engs, "Unknown event type: " \o eventType, <<>>, parameters)
        ELSE IF eventType = "TOY_BAROMETER"
        THEN AfterAnalyze(engs, eventType,
                          TOYBarometerEngine_analyze(engs[eventType],
                                SpreadOverTicker(ticker, parameters), req),
                          <<>>, parameters, JSUndefined)
        ELSE IF eventType # "MACRO_EVENT" /\ ~MarketData(req.market)[ticker].ok
        THEN NotDispatched(engs, FetchErrorMessage(ticker), <<ticker>>, parameters)
        ELSE IF eventType # "MACRO_EVENT" /\ Len(MarketData(req.market)[ticker].rows) = 0
        THEN NotDispatched(engs, "No market data available for " \o ticker,
                           <<ticker>>, parameters)
        ELSE LET data == IF eventType = "MACRO_EVENT" THEN JSNull
                         ELSE JSArray(MarketData(req.market)[ticker].rows)
                 fetched == IF eventType = "MACRO_EVENT" THEN <<>> ELSE <<ticker>>
                 isMomentum == eventType \in {"MOMENTUM_BULLISH", "MOMENTUM_BEARISH"}
                 passed == IF isMomentum /\ ~IsNullish(parameters)
                           THEN SetMomentumType(parameters,
                                    IF eventType = "MOMENTUM_BULLISH" THEN "bullish"
                                    ELSE "bearish")
                           ELSE parameters
             IN  IF isMomentum /\ IsNullish(parameters)
                 THEN NotDispatched(engs, TypeErrorSetMomentumType, fetched, parameters)
                 ELSE AfterAnalyze(engs, eventType,
                                   EngineAnalyze(eventType, engs[eventType], data, passed,
                                                 req),
                                   fetched, passed, DataAfter(eventType, data, passed))

(***************************************************************************)
(* State machine                                                           *)
(***************************************************************************)
NoCall ==
    [request |-> NoRequest, enginesBefore |-> [t \in EventTypes |-> NewEngine],
     raised |-> FALSE, raisedMessage |-> NULL, result |-> NoResult,
     returned |-> NoData, fallback |-> NULL, invoked |-> <<>>, fetched |-> <<>>,
     log |-> <<>>, parametersAfter |-> JSUndefined, dataAfter |-> JSUndefined]

\* Before calculate was ever called
NoCalculation ==
    [called |-> FALSE,
     request |-> [data |-> JSUndefined, matches |-> JSUndefined, customPeriods |-> <<>>],
     result |-> [raised |-> FALSE, results |-> <<>>,
                 summary |-> [totalMatches |-> 0, message |-> NULL, periods |-> <<>>],
                 performanceTable |-> [rows |-> <<>>, message |-> NULL],
                 dataPointsAnalyzed |-> 0, timeframes |-> <<>>, log |-> <<>>]]

\* new ContextualFilterService() in a process whose local time is tz ticks
\* ahead of UTC: the cache is an empty Map.
NewFilterService(tz) == [tz |-> tz, cache |-> <<>>]

\* Before any method of the filter service was called
NoFilterCall ==
    [method |-> "none", now |-> 0, dates |-> <<>>, filters |-> <<>>,
     additionalFilters |-> [day_filter |-> <<>>, month_filter |-> <<>>],
     range |-> <<>>, returned |-> <<>>, log |-> <<>>, cacheBefore |-> <<>>]

\* A user document as registration creates it (the schema's defaults)
NewUser(tier) ==
    [tier |-> tier, queriesThisMonth |-> 0, totalQueries |-> 0,
     lastResetDate |-> <<>>, lastLogin |-> <<>>]

\* Before any request was answered
NoResponse ==
    [status |-> 0, error |-> NULL, eventType |-> NULL, cached |-> FALSE,
     results |-> <<>>, summary |-> <<>>, matches |-> 0, request |-> <<>>]

\* The coordinator's constructor registers one fresh engine per event kind.
InitEngines == [t \in EventTypes |-> NewEngine]

\* getHealthStatus, of BaseEventEngine and of TOYBarometerEngine alike:
\* successCount / (successCount + errorCount) || 0 is 0 when the quotient is
\* NaN (no call yet) or 0.
getHealthStatus(eventType, health) ==
    [name |-> EngineName(eventType),
     healthy |-> health.isHealthy,
     successRate |->
        IF health.successCount + health.errorCount = 0 \/ health.successCount = 0
        THEN Zero
        ELSE RNorm(R(health.successCount, health.successCount + health.errorCount)),
     lastError |-> health.lastError,
     totalAnalyses |-> health.successCount + health.errorCount]

getEngineHealthStatus(engs) == [t \in EventTypes |-> getHealthStatus(t, engs[t])]

\* The registry's keys in the order the constructor lists them
RegisteredTypes ==
    <<"PERCENT_MOVE", "REVERSAL", "SECTOR_SPREAD", "MOMENTUM_BULLISH", "MOMENTUM_BEARISH",
      "VOLATILITY_EVENT", "MACRO_EVENT", "TOY_BAROMETER">>

getAvailableEngines(engs) == SelectSeq(RegisteredTypes, LAMBDA type : engs[type].isHealthy)

\* The most analyses callers make in one behaviour
MaxCalls == 2

totalAnalyses(health) == health.successCount + health.errorCount

RECURSIVE SumOver(_, _)
SumOver(engs, types) ==
    IF types = {} THEN 0
    ELSE LET t == CHOOSE x \in types : TRUE
         IN  totalAnalyses(engs[t]) + SumOver(engs, types \ {t})

\* A caller calls the coordinator with request req.
RunEventAnalysis(req) ==
    /\ SumOver(engines, EventTypes) < MaxCalls
    /\ req.op = "run"
    /\ \E out \in {runEventAnalysis(engines, req)} :
           /\ engines' = out.engines
           /\ lastCall' =
                [request |-> req, enginesBefore |-> engines,
                 raised |-> out.raised, raisedMessage |-> out.raisedMessage,
                 result |-> out.result, returned |-> out.returned,
                 fallback |-> out.fallback, invoked |-> out.invoked,
                 fetched |-> out.fetched, log |-> out.log,
                 parametersAfter |-> out.parametersAfter, dataAfter |-> out.dataAfter]
    /\ UNCHANGED <<calc, filterService, filterCall>>
    /\ UNCHANGED <<serverVars, asyncVars>>

\* A caller calls analyze on the engine registered for eventType; outcome is
\* what that call does.
Analyze(eventType, req, outcome) ==
    /\ SumOver(engines, EventTypes) < MaxCalls
    /\ req.op = "analyze"
    /\ req.eventType = eventType
    /\ \E call \in {outcome} :
           /\ engines' = [engines EXCEPT ![eventType] = call.health]
           /\ lastCall' =
                [request |-> req, enginesBefore |-> engines,
                 raised |-> call.raised, raisedMessage |-> call.raisedMessage,
                 result |-> call.result, returned |-> call.result.data,
                 fallback |-> call.result.fallback, invoked |-> <<eventType>>,
                 fetched |-> call.fetched, log |-> call.log,
                 parametersAfter |-> req.parameters,
                 dataAfter |-> DataAfter(eventType, req.data, req.parameters)]
    /\ UNCHANGED <<calc, filterService, filterCall>>
    /\ UNCHANGED <<serverVars, asyncVars>>

PercentMoveAnalyze(req) ==
    Analyze("PERCENT_MOVE", req,
            PercentMoveEngine_analyze(engines["PERCENT_MOVE"], req.data, req.parameters))

ReversalAnalyze(req) ==
    Analyze("REVERSAL", req,
            ReversalEngine_analyze(engines["REVERSAL"], req.data, req.parameters))

SectorSpreadAnalyze(req) ==
    Analyze("SECTOR_SPREAD", req,
            SectorSpreadEngine_analyze(engines["SECTOR_SPREAD"], req.data,
                                       req.parameters, req))

MomentumAnalyze(req) ==
    \E t \in {"MOMENTUM_BULLISH", "MOMENTUM_BEARISH"} :
        Analyze(t, req, MomentumEngine_analyze(engines[t], req.data, req.parameters))

VolatilityAnalyze(req) ==
    Analyze("VOLATILITY_EVENT", req,
            VolatilityEngine_analyze(engines["VOLATILITY_EVENT"], req.data,
                                     req.parameters, req))

MacroAnalyze(req) ==
    Analyze("MACRO_EVENT", req,
            MacroEngine_analyze(engines["MACRO_EVENT"], req.data, req.parameters, req))

TOYBarometerAnalyze(req) ==
    Analyze("TOY_BAROMETER", req,
            TOYBarometerEngine_analyze(engines["TOY_BAROMETER"], req.parameters, req))

(***************************************************************************)
(* Inputs                                                                  *)
(***************************************************************************)

Chars1228 == <<"1", "2", "-", "2", "8">>
Chars0104 == <<"0", "1", "-", "0", "4">>

Now0 == DayNumber(2001, 6, 1) * TicksPerDay

RunRequest(eventType, parameters, market) ==
    [op |-> "run", eventType |-> eventType, ticker |-> "SPY", data |-> JSUndefined,
     parameters |-> parameters, market |-> market, firstRejection |-> 1,
     now |-> Now0, tz |-> 0]

AnalyzeRequest(eventType, data, parameters, market, firstRejection) ==
    [op |-> "analyze", eventType |-> eventType, ticker |-> NULL, data |-> data,
     parameters |-> parameters, market |-> market, firstRejection |-> firstRejection,
     now |-> Now0, tz |-> 0]

PercentMoveParameters ==
    JSObject([percent_move |-> R(1, 1), days |-> 1, direction |-> "up"])

ReversalParameters ==
    JSObject([open_threshold |-> R(1, 1), close_threshold |-> R(1, 1),
              pattern |-> "bearish"])

SectorSpreadParameters ==
    JSObject([sector_a |-> "XLE", sector_b |-> "XLU", spread_threshold |-> R(2, 1),
              days |-> 1])

MomentumParameters == JSObject([sma_period |-> 1, days |-> 1, threshold |-> R(12, 10)])

VolatilityParameters ==
    JSObject([ticker |-> "SPY", vix_threshold |-> R(25, 1), price_condition |-> "any",
              price_threshold |-> R(2, 1)])

\* Thresholds met (CPI 3.2 >= 3), one of two unmet (rate 5.25 < 6), none supplied
MacroParameters ==
    {JSObject([cpi_threshold |-> R(3, 1)]),
     JSObject([cpi_threshold |-> R(3, 1), rate_threshold |-> R(6, 1)]),
     JSObject(<<>>)}

ToyParameters(first_year, last_year, toy_start, toy_end, threshold) ==
    JSObject([first_year |-> first_year, last_year |-> last_year,
              toy_start |-> toy_start, toy_end |-> toy_end, threshold |-> threshold,
              forward_days |-> <<1, 5>>])

GoodToyParameters == ToyParameters(2000, 2001, Chars1228, Chars0104, R(3, 1))

\* Out-of-range threshold, years out of order, month 13, day 32, no dash
BadToyParameters ==
    {ToyParameters(2000, 2001, Chars1228, Chars0104, R(25, 1)),
     ToyParameters(2000, 2001, Chars1228, Chars0104, R(-1, 1)),
     ToyParameters(2001, 2000, Chars1228, Chars0104, R(3, 1)),
     ToyParameters(2000, 2000, Chars1228, Chars0104, R(3, 1)),
     ToyParameters(2000, 2001, <<"1", "3", "-", "0", "1">>, Chars0104, R(3, 1)),
     ToyParameters(2000, 2001, Chars1228, <<"0", "1", "-", "3", "2">>, R(3, 1)),
     ToyParameters(2000, 2001, Chars1228, <<"0", "1", "/", "0", "4">>, R(3, 1))}

RunRequests ==
    {RunRequest("EARNINGS_DRIFT", JSObject(<<>>), "calm")}
    \cup {RunRequest("PERCENT_MOVE", PercentMoveParameters, m) :
            m \in {"calm", "down", "empty"}}
    \cup {RunRequest("PERCENT_MOVE", JSUndefined, "calm"),
          RunRequest("REVERSAL", ReversalParameters, "calm"),
          RunRequest("SECTOR_SPREAD", SectorSpreadParameters, "calm"),
          RunRequest("SECTOR_SPREAD", SectorSpreadParameters, "partial"),
          RunRequest("MOMENTUM_BULLISH", MomentumParameters, "calm"),
          RunRequest("MOMENTUM_BULLISH", JSUndefined, "calm"),
          RunRequest("MOMENTUM_BEARISH", MomentumParameters, "calm"),
          RunRequest("VOLATILITY_EVENT", VolatilityParameters, "calm"),
          RunRequest("VOLATILITY_EVENT", VolatilityParameters, "partial"),
          RunRequest("TOY_BAROMETER", GoodToyParameters, "calm"),
          RunRequest("TOY_BAROMETER", GoodToyParameters, "down"),
          RunRequest("TOY_BAROMETER", GoodToyParameters, "empty"),
          RunRequest("TOY_BAROMETER", JSUndefined, "calm")}
    \cup {RunRequest("MACRO_EVENT", p, "calm") : p \in MacroParameters \cup {JSUndefined}}
    \cup {RunRequest("TOY_BAROMETER", p, "calm") : p \in BadToyParameters}

SPYData == JSArray(CalmMarket["SPY"].rows)

\* A direct caller passes a series, null, or (to the engines that read their
\* options from the first argument) the options object.
AnalyzeRequests ==
    {AnalyzeRequest("PERCENT_MOVE", SPYData, PercentMoveParameters, "calm", 1),
     AnalyzeRequest("PERCENT_MOVE", SPYData, JSObject([days |-> -1]), "calm", 1),
     AnalyzeRequest("PERCENT_MOVE", SPYData, JSUndefined, "calm", 1),
     AnalyzeRequest("PERCENT_MOVE", JSNull, PercentMoveParameters, "calm", 1),
     AnalyzeRequest("REVERSAL", SPYData, ReversalParameters, "calm", 1),
     AnalyzeRequest("REVERSAL", JSNull, ReversalParameters, "calm", 1),
     AnalyzeRequest("SECTOR_SPREAD", SPYData, SectorSpreadParameters, "calm", 1),
     AnalyzeRequest("SECTOR_SPREAD", SectorSpreadParameters, JSUndefined, "calm", 1),
     AnalyzeRequest("SECTOR_SPREAD", SectorSpreadParameters, JSUndefined, "down", 1),
     AnalyzeRequest("SECTOR_SPREAD", SectorSpreadParameters, JSUndefined, "down", 2),
     AnalyzeRequest("SECTOR_SPREAD", JSNull, SectorSpreadParameters, "calm", 1),
     AnalyzeRequest("MOMENTUM_BULLISH", SPYData, MomentumParameters, "calm", 1),
     AnalyzeRequest("MOMENTUM_BEARISH", SPYData, MomentumParameters, "calm", 1),
     AnalyzeRequest("MOMENTUM_BULLISH", SPYData, JSObject([sma_period |-> 0]), "calm", 1),
     AnalyzeRequest("MOMENTUM_BEARISH", JSNull, MomentumParameters, "calm", 1),
     AnalyzeRequest("VOLATILITY_EVENT", SPYData, VolatilityParameters, "calm", 1),
     AnalyzeRequest("VOLATILITY_EVENT", VolatilityParameters, JSUndefined, "calm", 1),
     AnalyzeRequest("VOLATILITY_EVENT", SPYData, VolatilityParameters, "down", 1),
     AnalyzeRequest("VOLATILITY_EVENT", JSNull, VolatilityParameters, "calm", 1),
     AnalyzeRequest("MACRO_EVENT", JSNull, JSObject([cpi_threshold |-> R(3, 1)]),
                    "calm", 1),
     AnalyzeRequest("TOY_BAROMETER", JSUndefined, GoodToyParameters, "calm", 1),
     AnalyzeRequest("TOY_BAROMETER", JSUndefined, JSUndefined, "calm", 1),
     AnalyzeRequest("TOY_BAROMETER", JSUndefined, JSNull, "calm", 1)}
    \cup {AnalyzeRequest("MACRO_EVENT", p, JSUndefined, "calm", 1) : p \in MacroParameters}

Requests == RunRequests \cup AnalyzeRequests

Init ==
    /\ engines = InitEngines
    /\ lastCall = NoCall
    /\ calc = NoCalculation
    /\ filterService = NewFilterService(0)
    /\ filterCall = NoFilterCall
    /\ userDoc = NewUser("starter")
    /\ queryCache = <<>>
    /\ queryHistory = <<>>
    /\ response = NoResponse
    /\ inflight = <<>>
    /\ running = <<>>

\* Callers make one call after another, up to MaxCalls analyses in all.
Next ==
    \E req \in Requests :
        \/ RunEventAnalysis(req)
        \/ PercentMoveAnalyze(req)
        \/ ReversalAnalyze(req)
        \/ SectorSpreadAnalyze(req)
        \/ MomentumAnalyze(req)
        \/ VolatilityAnalyze(req)
        \/ MacroAnalyze(req)
        \/ TOYBarometerAnalyze(req)

Spec == Init /\ [][Next]_vars

(***************************************************************************)
(* Properties of the fault-isolation wrapper and the coordinator           *)
(***************************************************************************)
\* The engine a direct analyze call was made on, before and after the call
CalledBefore == lastCall.enginesBefore[lastCall.request.eventType]
CalledAfter == engines[lastCall.request.eventType]

\* The prefix each kind of engine puts before the exception's message
ErrorPrefix(eventType) ==
    IF eventType = "TOY_BAROMETER" THEN "TOY analysis failed: "
    ELSE EngineName(eventType) \o " analysis unavailable: "

\* C1: a call of analyze, on any engine with any input, never raises; when the
\* result is a failure it carries an error (the engine's prefix and the
\* exception's message) and a fallback, the engine's errorCount is one more
\* than before the call and lastError is the exception's message.
C1_AnalyzeNeverRaises ==
    lastCall.request.op = "analyze" =>
        /\ ~lastCall.raised
        /\ ~lastCall.result.success =>
            /\ lastCall.result.fallback # NULL
            /\ CalledAfter.lastError # NULL
            /\ lastCall.result.error =
                    ErrorPrefix(lastCall.request.eventType) \o CalledAfter.lastError
            /\ CalledAfter.errorCount = CalledBefore.errorCount + 1
            /\ CalledAfter.successCount = CalledBefore.successCount

\* An analyze call whose algorithm threw (PercentMoveEngine read a null series)
\* on an engine that had failed once before.
C1_Witness ==
    /\ lastCall.request.op = "analyze"
    /\ lastCall.request.eventType = "PERCENT_MOVE"
    /\ lastCall.request.data = JSNull
    /\ ~lastCall.result.success
    /\ CalledAfter.lastError = TypeErrorNullish
    /\ CalledAfter.errorCount = 2

\* C2: when the engine the coordinator selected reports a failure, the
\* coordinator does not raise, and what it hands to its caller carries the
\* engine's fallback string.
C2_CoordinatorAbsorbsFailure ==
    (/\ lastCall.request.op = "run"
     /\ lastCall.invoked # <<>>
     /\ ~lastCall.result.success)
        => /\ ~lastCall.raised
           /\ lastCall.fallback # NULL
           /\ lastCall.fallback = lastCall.result.fallback

\* The request of the last call failed before dispatch in one of the two ways
\* C3 names: the kind is not registered, or the kind needs the ticker's series
\* and the provider has none or an empty one.
UnknownKind == lastCall.request.eventType \notin EventTypes

SeriesUnavailable ==
    /\ lastCall.request.eventType \in EventTypes \ {"TOY_BAROMETER", "MACRO_EVENT"}
    /\ LET answer == MarketData(lastCall.request.market)[lastCall.request.ticker]
       IN  ~answer.ok \/ answer.rows = <<>>

\* C3: a run for an unregistered kind fails without fetching a series or
\* invoking an engine; a run for a kind other than TOY and Macro whose series
\* is missing or empty fails without invoking an engine; either way every
\* engine's counters, healthy flag and lastError are as before the run.
C3_PreDispatchFailureTouchesNothing ==
    (lastCall.request.op = "run" /\ (UnknownKind \/ SeriesUnavailable))
        => /\ lastCall.raised
           /\ lastCall.invoked = <<>>
           /\ UnknownKind => lastCall.fetched = <<>>
           /\ engines = lastCall.enginesBefore

\* A run that found the ticker's series empty, after an earlier call had left
\* its mark on some engine.
C3_Witness ==
    /\ lastCall.request.op = "run"
    /\ SeriesUnavailable
    /\ lastCall.request.market = "empty"
    /\ lastCall.raised
    /\ lastCall.enginesBefore # InitEngines

(***************************************************************************)
(* Properties of the engines as the coordinator reaches them               *)
(***************************************************************************)
\* Whether 100 * (endA/startA - 1) - 100 * (endB/startB - 1), multiplied by
\* startA * startB, is positive, and whether its size is at least |t| percent
SpreadNumerator(startA, endA, startB, endB) ==
    100 * ((endA - startA) * startB - (endB - startB) * startA)

SpreadAtLeast(startA, endA, startB, endB, t) ==
    IAbs(SpreadNumerator(startA, endA, startB, endB)) * t.d >= IAbs(t.n) * startA * startB

\* The options the caller of the last call supplied
Supplied == lastCall.request.parameters.props

\* What C6 expects of a sector-spread run: the pair of series of the supplied
\* symbols, aligned by date, and the start indices whose spread over the
\* supplied days reaches the supplied threshold.
SpreadAligned ==
    _alignDataSeries(MarketData(lastCall.request.market)[Supplied.sector_a].rows,
                     MarketData(lastCall.request.market)[Supplied.sector_b].rows)

SpreadStarts ==
    {i \in 0..(Len(SpreadAligned) - Supplied.days - 1) :
        SpreadAtLeast(SpreadAligned[i + 1].a.close,
                      SpreadAligned[i + Supplied.days + 1].a.close,
                      SpreadAligned[i + 1].b.close,
                      SpreadAligned[i + Supplied.days + 1].b.close,
                      Supplied.spread_threshold)}

\* C6: a sector-spread run dispatched by the coordinator with sector symbols,
\* threshold and days supplied, both series available, returns one match per
\* start index i whose |returnA - returnB| over the supplied days reaches the
\* supplied threshold, dated at aligned index i + days, with the symbol of the
\* larger return as outperformer.
C6_SectorSpreadUsesSuppliedParameters ==
    (/\ lastCall.request.op = "run"
     /\ lastCall.request.eventType = "SECTOR_SPREAD"
     /\ lastCall.invoked # <<>>
     /\ HasKey(lastCall.request.parameters, "sector_a")
     /\ MarketData(lastCall.request.market)[Supplied.sector_a].ok
     /\ MarketData(lastCall.request.market)[Supplied.sector_b].ok)
        => /\ ~lastCall.raised
           /\ Len(lastCall.returned.matches) = Cardinality(SpreadStarts)
           /\ \A i \in SpreadStarts :
                \E k \in DOMAIN lastCall.returned.matches :
                    LET m == lastCall.returned.matches[k]
                        first == SpreadAligned[i + 1]
                        last == SpreadAligned[i + Supplied.days + 1]
                    IN  /\ m.date = last.date
                        /\ m.outperformer =
                            IF SpreadNumerator(first.a.close, last.a.close,
                                               first.b.close, last.b.close) > 0
                            THEN Supplied.sector_a ELSE Supplied.sector_b

\* What C7 expects of a volatility scan of the price series data with the
\* options opts: price and volatility index aligned by date, and the aligned
\* indices i >= 1 where the index closes at or above vix_threshold and the price
\* condition holds.
VolAligned(data, market) == _alignDataSeries(data.rows, MarketData(market)["^VIX"].rows)

VolPriceCondition(aligned, i, opts) ==
    LET condition == Destructure(opts, "price_condition", "any")
        t == Destructure(opts, "price_threshold", R(2, 1))
        prev == aligned[i].a.close
    IN  CASE condition = "down" ->
                100 * (aligned[i + 1].a.close - prev) * t.d < -(IAbs(t.n) * prev)
          [] condition = "up" ->
                100 * (aligned[i + 1].a.close - prev) * t.d > IAbs(t.n) * prev
          [] condition = "gap_down" ->
                100 * (aligned[i + 1].a.open - prev) * t.d <= -(IAbs(t.n) * prev)
          [] OTHER -> TRUE

VolDays(data, opts, market) ==
    LET aligned == VolAligned(data, market)
        vix == Destructure(opts, "vix_threshold", R(25, 1))
    IN  {aligned[i + 1].a.date : i \in {j \in 1..(Len(aligned) - 1) :
            /\ aligned[j + 1].b.close * vix.d >= vix.n
            /\ VolPriceCondition(aligned, j, opts)}}

\* The series and options of the last call when it reached VolatilityEngine: as
\* the coordinator passed them, or as the direct caller did.
VolData ==
    IF lastCall.request.op = "run"
    THEN JSArray(MarketData(lastCall.request.market)[lastCall.request.ticker].rows)
    ELSE lastCall.request.data

\* C7: VolatilityEngine.analyze on a non-empty price series, the volatility
\* index available, returns success, and its matches are the aligned days
\* i >= 1 where the index closes at or above vix_threshold and the price
\* condition holds.
C7_VolatilityScanSucceeds ==
    (/\ lastCall.request.eventType = "VOLATILITY_EVENT"
     /\ lastCall.invoked # <<>>
     /\ VolData.tag = "array" /\ VolData.rows # <<>>
     /\ lastCall.request.parameters.tag = "object"
     /\ MarketData(lastCall.request.market)["^VIX"].ok)
        => /\ lastCall.result.success
           /\ {lastCall.returned.matches[k].date : k \in DOMAIN lastCall.returned.matches}
                = VolDays(VolData, lastCall.request.parameters, lastCall.request.market)

\* The macro thresholds supplied, with the indicator each is held against
MacroSupplied ==
    {<<R(32, 10), Supplied[k]>> : k \in {"cpi_threshold"} \cap DOMAIN Supplied}
    \cup {<<R(28, 10), Supplied[k]>> : k \in {"dxy_threshold"} \cap DOMAIN Supplied}
    \cup {<<R(525, 100), Supplied[k]>> : k \in {"rate_threshold"} \cap DOMAIN Supplied}

\* C8: a MACRO_EVENT run dispatched by the coordinator succeeds, with exactly
\* one match if at least one threshold is supplied and every supplied threshold
\* is met by its indicator, and with no match otherwise.
C8_MacroRunSucceeds ==
    (/\ lastCall.request.op = "run"
     /\ lastCall.request.eventType = "MACRO_EVENT"
     /\ lastCall.request.parameters.tag = "object")
        => /\ ~lastCall.raised
           /\ lastCall.result.success
           /\ Len(lastCall.returned.matches) =
                IF MacroSupplied # {} /\ \A c \in MacroSupplied : RGeq(c[1], c[2])
                THEN 1 ELSE 0

\* The TOY options of the last call as analyze reads them, defaults included
ToyOption(key, dflt) == Destructure(lastCall.request.parameters, key, dflt)

\* C10's conditions of rejection
ToyWindowMalformed(str) ==
    \/ ~datePattern(str)
    \/ SplitMonthDay(str)[1] \notin 1..12
    \/ SplitMonthDay(str)[2] \notin 1..31

ToyRequestInvalid ==
    \/ ToyWindowMalformed(ToyOption("toy_start", <<"1", "1", "-", "1", "9">>))
    \/ ToyWindowMalformed(ToyOption("toy_end", <<"0", "1", "-", "1", "9">>))
    \/ ~(ToyOption("first_year", 2000) < ToyOption("last_year", CurrentYear(lastCall.request)))
    \/ RLt(ToyOption("threshold", R(3, 1)), Zero)
    \/ RGt(ToyOption("threshold", R(3, 1)), R(20, 1))

\* C10: a TOY request whose window is malformed or out of range, whose
\* first_year is not below last_year or whose threshold is outside [0, 20] is
\* rejected: the result is a failure, no price history was fetched and no year
\* was analysed.
C10_InvalidTOYRequestRejected ==
    (/\ lastCall.request.eventType = "TOY_BAROMETER"
     /\ lastCall.invoked # <<>>
     /\ lastCall.request.parameters.tag = "object"
     /\ ToyRequestInvalid)
        => /\ ~lastCall.result.success
           /\ lastCall.fetched = <<>>
           /\ lastCall.log = <<[level |-> "error", text |-> lastCall.result.error]>>

(***************************************************************************)
(* PercentMoveEngine over every short series                               *)
(***************************************************************************)
\* The longest series scanned
PMMaxLen == 6

PMCloses == {95, 100, 105}

FirstDay == DayNumber(2001, 1, 1)

\* The series whose k-th bar, on the k-th day from FirstDay, opens and closes at
\* closes[k]
ClosesSeries(closes) ==
    Series(DaysFrom(FirstDay, Len(closes)), 0, [k \in DOMAIN closes |-> <<closes[k], closes[k]>>])

PercentMoveRequests ==
    {AnalyzeRequest("PERCENT_MOVE", JSArray(ClosesSeries(closes)),
                    JSObject([percent_move |-> R(t, 1), days |-> d, direction |-> dir]),
                    "calm", 1) :
        closes \in UNION {[1..n -> PMCloses] : n \in 0..PMMaxLen},
        t \in {5, -5}, d \in {2, 5}, dir \in {"up", "down", "both"}}

\* One call of analyze on a fresh engine.
PercentMoveScan(req) ==
    /\ lastCall.request.op = "none"
    /\ PercentMoveAnalyze(req)

NextPercentMove == \E req \in PercentMoveRequests : PercentMoveScan(req)

SpecPercentMove == Init /\ [][NextPercentMove]_vars

\* The last call, when it was a scan of PercentMoveRequests
PMRows == lastCall.request.data.rows
PMThreshold == lastCall.request.parameters.props.percent_move
PMDays == lastCall.request.parameters.props.days
PMDirection == lastCall.request.parameters.props.direction

\* r >= T, r <= -|T| or |r| >= |T| for r = (close[i+D]/close[i] - 1) * 100, both
\* sides multiplied by close[i] (positive) and by T's denominator
PMQualifies(i) ==
    LET gain == 100 * (PMRows[i + PMDays + 1].close - PMRows[i + 1].close) * PMThreshold.d
        bar == PMThreshold.n * PMRows[i + 1].close
    IN  CASE PMDirection = "up" -> gain >= bar
          [] PMDirection = "down" -> gain <= -IAbs(bar)
          [] PMDirection = "both" -> IAbs(gain) >= IAbs(bar)

PMStarts == {i \in 0..(Len(PMRows) - PMDays - 1) : PMQualifies(i)}

\* C4: the matches of a percent-move scan are, one for one, the start indices i
\* in [0, len - D) whose cumulative return meets the direction policy: each is
\* dated at index i + D and carries that return, none is dropped as overlapping.
C4_PercentMoveMatchesExactly ==
    (lastCall.request.op = "analyze" /\ lastCall.request.eventType = "PERCENT_MOVE"
        /\ lastCall.request.data.tag = "array"
        /\ HasKey(lastCall.request.parameters, "percent_move"))
        => /\ lastCall.result.success
           /\ Len(lastCall.returned.matches) = Cardinality(PMStarts)
           /\ \A i \in PMStarts :
                \E k \in DOMAIN lastCall.returned.matches :
                    LET m == lastCall.returned.matches[k]
                    IN  /\ m.date = PMRows[i + PMDays + 1].date
                        /\ m.return.n * PMRows[i + 1].close =
                            100 * (PMRows[i + PMDays + 1].close - PMRows[i + 1].close)
                                * m.return.d

\* A scan with direction up, T = 5 and D = 5 of six bars that close exactly
\* 5% higher at the last than at the first: one match, at index 5, return 5.
C4_Witness ==
    /\ lastCall.request.op = "analyze" /\ lastCall.request.eventType = "PERCENT_MOVE"
    /\ HasKey(lastCall.request.parameters, "percent_move")
    /\ PMThreshold = R(5, 1) /\ PMDays = 5 /\ PMDirection = "up"
    /\ Len(PMRows) = 6 /\ PMRows[1].close = 100 /\ PMRows[6].close = 105
    /\ Len(lastCall.returned.matches) = 1
    /\ lastCall.returned.matches[1].date = PMRows[6].date
    /\ lastCall.returned.matches[1].return = R(5, 1)

(***************************************************************************)
(* ReversalEngine over every short series                                  *)
(***************************************************************************)
\* The longest series scanned
RevMaxLen == 3

\* <<open, close>>: a flat day, a gap up of 2% of 10000 that closes 1.5% under its
\* open, a gap down of 2% that closes 1.5% over its open, a gap up that holds
RevBars == {<<10000, 10000>>, <<10200, 10047>>, <<9800, 9947>>, <<10200, 10200>>}

ReversalRequests ==
    {AnalyzeRequest("REVERSAL",
                    JSArray(Series(DaysFrom(FirstDay, Len(bars)), 0, bars)),
                    JSObject([open_threshold |-> R(2, 1), close_threshold |-> ct,
                              pattern |-> pat]),
                    "calm", 1) :
        bars \in UNION {[1..n -> RevBars] : n \in 0..RevMaxLen},
        ct \in {R(1, 1), R(16, 10)}, pat \in {"bearish", "bullish"}}

\* One call of analyze on a fresh engine.
ReversalScan(req) ==
    /\ lastCall.request.op = "none"
    /\ ReversalAnalyze(req)

NextReversal == \E req \in ReversalRequests : ReversalScan(req)

SpecReversal == Init /\ [][NextReversal]_vars

RevRows == lastCall.request.data.rows
RevOpenThreshold == lastCall.request.parameters.props.open_threshold
RevCloseThreshold == lastCall.request.parameters.props.close_threshold
RevPattern == lastCall.request.parameters.props.pattern

\* x / base * 100 >= t and <= -t, for base > 0, by cross multiplication
AtLeastPct(x, base, t) == 100 * x * t.d >= t.n * base
AtMostMinusPct(x, base, t) == 100 * x * t.d <= -(t.n * base)

\* Day i (0-based, i >= 1) is a reversal of the requested pattern.
RevQualifies(i) ==
    LET prevClose == RevRows[i].close
        open == RevRows[i + 1].open
        close == RevRows[i + 1].close
    IN  \/ /\ RevPattern = "bearish"
           /\ AtLeastPct(open - prevClose, prevClose, RevOpenThreshold)
           /\ AtMostMinusPct(close - open, open, RevCloseThreshold)
        \/ /\ RevPattern = "bullish"
           /\ AtMostMinusPct(open - prevClose, prevClose, RevOpenThreshold)
           /\ AtLeastPct(close - open, open, RevCloseThreshold)

\* C5: a reversal scan reports a match at day i >= 1 if and only if the open
\* moved against the previous close by at least open_threshold and the close
\* moved back against the open by at least close_threshold, in the directions
\* of the requested pattern; a day is reported once.
C5_ReversalMatchesExactly ==
    (lastCall.request.op = "analyze" /\ lastCall.request.eventType = "REVERSAL"
        /\ lastCall.request.data.tag = "array"
        /\ HasKey(lastCall.request.parameters, "pattern"))
        => /\ lastCall.result.success
           /\ {lastCall.returned.matches[k].date : k \in DOMAIN lastCall.returned.matches}
                = {RevRows[i + 1].date : i \in {j \in 1..(Len(RevRows) - 1) : RevQualifies(j)}}
           /\ Len(lastCall.returned.matches)
                = Cardinality({j \in 1..(Len(RevRows) - 1) : RevQualifies(j)})

\* open = 1.02 * previous close and close = 0.985 * open, scanned with thresholds
\* (2, 1): the day is a match.
C5_Witness ==
    /\ lastCall.request.op = "analyze" /\ lastCall.request.eventType = "REVERSAL"
    /\ HasKey(lastCall.request.parameters, "pattern")
    /\ RevPattern = "bearish" /\ RevCloseThreshold = R(1, 1)
    /\ Len(RevRows) = 2
    /\ RevRows[1].close = 10000 /\ RevRows[2].open = 10200 /\ RevRows[2].close = 10047
    /\ Len(lastCall.returned.matches) = 1
    /\ lastCall.returned.matches[1].date = RevRows[2].date

(***************************************************************************)
(* MomentumEngine on rising series of 80 and 81 bars                       *)
(***************************************************************************)
MomentumLengths == {80, 81}

\* A series that gains 125 a bar from 10125 on, except that bar dipAt (if any)
\* closes 0.8% under the bar before it: the price stays above its 20-bar average
\* and never falls more than 0.8% from its high.
RisingClose(k, dipAt) ==
    IF k = dipAt /\ k > 1 THEN ((10000 + 125 * (k - 1)) * 992) \div 1000
    ELSE 10000 + 125 * k

RisingSeries(n, dipAt) ==
    Series(DaysFrom(FirstDay, n), 0,
           [k \in 1..n |-> <<RisingClose(k, dipAt), RisingClose(k, dipAt)>>])

\* dipAt 0: no dip
MomentumRequests ==
    {AnalyzeRequest("MOMENTUM_BULLISH", JSArray(RisingSeries(n, dipAt)),
                    JSObject([sma_period |-> 20, days |-> 60, momentum_type |-> "bullish",
                              threshold |-> R(12, 10)]),
                    "calm", 1) :
        n \in MomentumLengths, dipAt \in {0} \cup 22..81}

\* One call of analyze on a fresh engine.
MomentumScan(req) ==
    /\ lastCall.request.op = "none"
    /\ MomentumAnalyze(req)

NextMomentum == \E req \in MomentumRequests : MomentumScan(req)

SpecMomentum == Init /\ [][NextMomentum]_vars

\* C9: a bullish scan (sma_period 20, days 60, threshold 1.2) of an 80-bar
\* series that rises, stays above its 20-bar average and never draws down more
\* than 0.8% returns exactly one match.
C9_EightyBarsOneMatch ==
    (/\ lastCall.request.op = "analyze"
     /\ lastCall.request.eventType = "MOMENTUM_BULLISH"
     /\ Len(lastCall.request.data.rows) = 80)
        => /\ lastCall.result.success
           /\ Len(lastCall.returned.matches) = 1

(***************************************************************************)
(* TOYBarometerEngine.analyze over price histories with gaps               *)
(***************************************************************************)
\* The sessions a history may hold around the turn of 2000/2001 and 2001/2002,
\* and around the 11-19 to 01-19 window of 2020.
ToyCalendar ==
    <<DayNumber(2000, 12, 28), DayNumber(2000, 12, 30), DayNumber(2001, 1, 4),
      DayNumber(2001, 1, 8), DayNumber(2001, 12, 28), DayNumber(2002, 1, 4)>>

ToyCalendar2020 ==
    <<DayNumber(2020, 1, 19), DayNumber(2020, 11, 19), DayNumber(2021, 1, 19)>>

\* The close of each session of the calendar, by price path
ToyPaths == {<<100, 100, 103, 97, 100, 99>>, <<100, 101, 102, 102, 104, 110>>}

\* The history with the sessions of calendar whose index is in kept
ToyHistory(calendar, path, kept) ==
    LET index == SelectSeq([i \in DOMAIN calendar |-> i], LAMBDA i : i \in kept)
    IN  Series([k \in DOMAIN index |-> calendar[index[k]]], 0,
               [k \in DOMAIN index |-> <<path[index[k]], path[index[k]]>>])

Chars0108 == <<"0", "1", "-", "0", "8">>
Chars1230 == <<"1", "2", "-", "3", "0">>
Chars1119 == <<"1", "1", "-", "1", "9">>
Chars0119 == <<"0", "1", "-", "1", "9">>

\* Window start and end: over the year end, and inside one year
ToyWindows == {<<Chars1228, Chars0104>>, <<Chars0104, Chars0108>>, <<Chars1228, Chars1230>>}

\* The server's offset from UTC, in ticks: behind, on, and ahead of UTC
ToyZones == {-1, 0, 1}

ToyRequest(history, first_year, last_year, window, threshold, tz) ==
    [op |-> "analyze", eventType |-> "TOY_BAROMETER", ticker |-> NULL,
     data |-> JSArray(history),
     parameters |-> ToyParameters(first_year, last_year, window[1], window[2], threshold),
     market |-> "history", firstRejection |-> 1, now |-> Now0, tz |-> tz]

ToyRequests ==
    {ToyRequest(ToyHistory(ToyCalendar, path, kept), years[1], years[2], window,
                threshold, tz) :
        path \in ToyPaths, kept \in (SUBSET (1..6)) \ {{}},
        years \in {<<2000, 2001>>, <<1999, 2000>>}, window \in ToyWindows,
        threshold \in {R(3, 1), R(-1, 1)}, tz \in ToyZones}
    \cup
    {ToyRequest(ToyHistory(ToyCalendar2020, <<100, 100, 105>>, kept), 2020, 2020,
                <<Chars1119, Chars0119>>, R(3, 1), tz) :
        kept \in (SUBSET (1..3)) \ {{}}, tz \in ToyZones}

\* One call of analyze on a fresh engine; the provider answers the engine's
\* fetch with the history the request carries in data.
ToyScan(req) ==
    /\ lastCall.request.op = "none"
    /\ Analyze("TOY_BAROMETER", req,
               TOYAnalyze(engines["TOY_BAROMETER"], req.parameters,
                          [t \in Tickers |-> FetchOk(req.data.rows)], req.tz,
                          CurrentYear(req)))

NextToy == \E req \in ToyRequests : ToyScan(req)

SpecToy == Init /\ [][NextToy]_vars

ToyCalled ==
    /\ lastCall.request.op = "analyze"
    /\ lastCall.request.eventType = "TOY_BAROMETER"
    /\ lastCall.request.market = "history"

ToyRows == lastCall.request.data.rows
ToyOptions == lastCall.request.parameters.props
ToyStartMonth == SplitMonthDay(ToyOptions.toy_start)[1]
ToyStartDay == SplitMonthDay(ToyOptions.toy_start)[2]
ToyEndMonth == SplitMonthDay(ToyOptions.toy_end)[1]
ToyEndDay == SplitMonthDay(ToyOptions.toy_end)[2]
ToyYears == ToyOptions.first_year..ToyOptions.last_year

\* The year the window that starts in year ends in
ToyEndYear(year) == IF ToyEndMonth < ToyStartMonth THEN year + 1 ELSE year

\* The UTC day that local midnight of a calendar day falls on
UTCDayOfLocalMidnight(y, m, d) ==
    (DayNumber(y, m, d) * TicksPerDay - lastCall.request.tz) \div TicksPerDay

\* Both boundaries of the window of year resolve to a trading day
ToyBoundariesFound(year) ==
    /\ findNearestTradingDay(NewDate(year, ToyStartMonth, ToyStartDay, lastCall.request.tz),
                             TradingDays(ToyRows), lastCall.request.tz) # <<>>
    /\ findNearestTradingDay(NewDate(ToyEndYear(year), ToyEndMonth, ToyEndDay,
                                     lastCall.request.tz),
                             TradingDays(ToyRows), lastCall.request.tz) # <<>>

ToyPeriodsOf(year) ==
    {i \in DOMAIN lastCall.result.data.toyPeriods :
        lastCall.result.data.toyPeriods[i].event.year = year}

ToyMatchesOf(year) ==
    {i \in DOMAIN lastCall.result.data.matches :
        lastCall.result.data.matches[i].year = year}

ToySkipsOf(year) ==
    {i \in DOMAIN lastCall.log :
        /\ lastCall.log[i].level = "warn"
        /\ lastCall.log[i].text =
                "Skipping TOY " \o ToString(year) \o ": No trading days found for TOY period "
                    \o ToString(year)}

\* C11: a year whose start or end boundary finds no trading day is skipped
\* with a warning and is absent from matches and toyPeriods; every other year
\* of the range is analysed; analyze returns success, counts it, and raises
\* nothing; each year ends as exactly one period or exactly one skip.
C11_SkippedYearIsNotFatal ==
    ToyCalled =>
        /\ ~lastCall.raised
        /\ lastCall.result.success
        /\ CalledAfter.successCount = CalledBefore.successCount + 1
        /\ CalledAfter.errorCount = CalledBefore.errorCount
        /\ Len(lastCall.result.data.toyPeriods) = Cardinality({y \in ToyYears : ToyBoundariesFound(y)})
        /\ Len(lastCall.log) = Cardinality({y \in ToyYears : ~ToyBoundariesFound(y)})
        /\ \A year \in ToyYears :
              IF ToyBoundariesFound(year)
              THEN /\ Cardinality(ToyPeriodsOf(year)) = 1
                   /\ Cardinality(ToyMatchesOf(year)) = 1
                   /\ ToySkipsOf(year) = {}
              ELSE /\ ToyPeriodsOf(year) = {}
                   /\ ToyMatchesOf(year) = {}
                   /\ Cardinality(ToySkipsOf(year)) = 1

\* The first year of the range is skipped and the second is analysed.
C11_Witness ==
    /\ ToyCalled
    /\ lastCall.result.success
    /\ ~ToyBoundariesFound(ToyOptions.first_year)
    /\ ToyBoundariesFound(ToyOptions.last_year)
    /\ ToyOptions.first_year < ToyOptions.last_year
    /\ Len(lastCall.result.data.toyPeriods) = 1
    /\ lastCall.result.data.toyPeriods[1].event.year = ToyOptions.last_year

ToyPeriodOf(year) ==
    lastCall.result.data.toyPeriods[CHOOSE i \in ToyPeriodsOf(year) : TRUE]

\* C12: the window of year Y starts on the toy_start day of Y and ends on the
\* toy_end day of Y + 1 when the end month is before the start month, of Y
\* otherwise: a period whose nominal start (end) day has a session starts
\* (ends) on that session.
C12_WindowCrossesYearEnd ==
    ToyCalled =>
        \A year \in ToyYears :
            ToyPeriodsOf(year) # {} =>
                /\ YearOfDay(DayNumber(year, ToyStartMonth, ToyStartDay)) = year
                /\ YearOfDay(DayNumber(ToyEndYear(year), ToyEndMonth, ToyEndDay))
                        = (IF ToyEndMonth < ToyStartMonth THEN year + 1 ELSE year)
                /\ UTCDayOfLocalMidnight(year, ToyStartMonth, ToyStartDay)
                        \in TradingDays(ToyRows)
                    => ToISODate(ToyPeriodOf(year).event.toy_start_date)
                            = UTCDayOfLocalMidnight(year, ToyStartMonth, ToyStartDay)
                /\ UTCDayOfLocalMidnight(ToyEndYear(year), ToyEndMonth, ToyEndDay)
                        \in TradingDays(ToyRows)
                    => ToISODate(ToyPeriodOf(year).event.toy_end_date)
                            = UTCDayOfLocalMidnight(ToyEndYear(year), ToyEndMonth, ToyEndDay)

\* toy_start 11-19, toy_end 01-19, year 2020, a history with sessions on
\* 2020-01-19, 2020-11-19 and 2021-01-19: the period ends on 2021-01-19.
C12_Witness ==
    /\ ToyCalled
    /\ lastCall.request.tz = 0
    /\ ToyOptions.toy_start = Chars1119
    /\ ToyOptions.toy_end = Chars0119
    /\ Len(ToyRows) = 3
    /\ ToyPeriodsOf(2020) # {}
    /\ ToISODate(ToyPeriodOf(2020).event.toy_start_date) = DayNumber(2020, 11, 19)
    /\ ToISODate(ToyPeriodOf(2020).event.toy_end_date) = DayNumber(2021, 1, 19)

\* The close of the session of a history that a date stamps
CloseOn(date) == ToyRows[CHOOSE i \in DOMAIN ToyRows : ToyRows[i].date = date].close

\* (endClose - startClose) / startClose * 100 >= t, for startClose > 0
ToyReturnAtLeast(startClose, endClose, t) ==
    (endClose - startClose) * 100 * t.d >= t.n * startClose

ToySignalOf(period) ==
    LET startClose == CloseOn(period.event.toy_start_date)
        endClose == CloseOn(period.event.toy_end_date)
    IN  IF ToyReturnAtLeast(startClose, endClose, ToyOptions.threshold) THEN "Bullish"
        ELSE IF endClose < startClose THEN "Bearish"
        ELSE "Neutral"

ToyCarrying(signal) ==
    Cardinality({i \in DOMAIN lastCall.result.data.toyPeriods :
                    lastCall.result.data.toyPeriods[i].signal = signal})

\* C13: every analysed year carries one signal, Bullish when its return is at
\* least the threshold, Bearish when the return is negative, Neutral
\* otherwise, and the summary's bullish, bearish and neutral counts are the
\* numbers of periods that carry each signal.
C13_SignalsAndCounts ==
    (ToyCalled /\ lastCall.result.data.toyPeriods # <<>>) =>
        /\ \A i \in DOMAIN lastCall.result.data.toyPeriods :
              /\ lastCall.result.data.toyPeriods[i].signal
                    = ToySignalOf(lastCall.result.data.toyPeriods[i])
              /\ lastCall.result.data.matches[i].signal
                    = ToySignalOf(lastCall.result.data.toyPeriods[i])
        /\ lastCall.result.data.summary.bullish_periods = ToyCarrying("Bullish")
        /\ lastCall.result.data.summary.bearish_periods = ToyCarrying("Bearish")
        /\ lastCall.result.data.summary.neutral_periods = ToyCarrying("Neutral")

(***************************************************************************)
(* ExtendedForwardReturnsCalculator (forward-returns.js)                   *)
(***************************************************************************)
RMul(x, y) == RNorm(R(x.n * y.n, x.d * y.d))

RECURSIVE Pow10(_)
Pow10(k) == IF k = 0 THEN 1 ELSE 10 * Pow10(k - 1)

\* x.toFixed(digits): the decimal string, held as its sign and its count of
\* 10^-digits units; the magnitude is rounded to the nearest unit, halves up.
ToFixed(x, digits) ==
    [negative |-> x.n < 0, digits |-> digits,
     units |-> (2 * IAbs(x.n) * Pow10(digits) + x.d) \div (2 * x.d)]

\* `${x >= 0 ? '+' : ''}${x.toFixed(2)}%`
SignedPercent(x) == [plus |-> RGeq(x, Zero), text |-> ToFixed(x, 2)]

\* The string ends in a marker of the move's magnitude; the markers are named
\* here by what the source's comments call them.
formatReturn(returnPct) ==
    [formatted |-> SignedPercent(returnPct),
     marker |-> IF RGeq(RAbs(returnPct), R(10, 1)) THEN "large move"
                ELSE IF RGeq(RAbs(returnPct), R(5, 1)) THEN "significant move"
                ELSE IF RGt(returnPct, Zero) THEN "positive"
                ELSE IF RLt(returnPct, Zero) THEN "negative"
                ELSE "flat"]

\* A match is a record; a property it lacks reads undefined.
Has(match, field) == field \in DOMAIN match

formatEventDetails(match) ==
    IF Has(match, "return")
    THEN [kind |-> "move", plus |-> RGt(match.return, Zero),
          text |-> <<ToFixed(match.return, 2)>>]
    ELSE IF Has(match, "openMove") /\ Has(match, "closeMove")
    THEN [kind |-> "Open/Close", plus |-> RGt(match.openMove, Zero),
          text |-> <<ToFixed(match.openMove, 1), ToFixed(match.closeMove, 1)>>]
    ELSE IF Has(match, "spread")
    THEN [kind |-> "Spread", plus |-> RGt(match.spread, Zero),
          text |-> <<ToFixed(match.spread, 2)>>]
    ELSE IF Has(match, "vix_level")
    THEN [kind |-> "VIX", plus |-> RGt(match.price_change, Zero),
          text |-> <<ToFixed(match.vix_level, 1), ToFixed(match.price_change, 2)>>]
    ELSE IF Has(match, "toy_return")
    THEN [kind |-> "TOY", plus |-> RGt(match.toy_return, Zero),
          text |-> <<ToFixed(match.toy_return, 2)>>]
    ELSE [kind |-> "Event occurred", plus |-> FALSE, text |-> <<>>]

\* The timeframe map: its entries <<label, days>> in Object.entries order.
DefaultPeriods ==
    << <<"1D", 1>>, <<"2D", 2>>, <<"3D", 3>>, <<"4D", 4>>, <<"1W", 5>>,
       <<"2W", 10>>, <<"1M", 21>>, <<"2M", 42>>, <<"3M", 63>>, <<"6M", 126>>,
       <<"12M", 252>> >>

\* dataByDate.get(day).index: every row is set under its UTC day, a later row
\* of the same day replacing an earlier one. Rows count from 1 here, 0 is
\* "no entry".
dataByDate(rows, day) ==
    LET hits == {i \in DOMAIN rows : ToISODate(rows[i].date) = day}
    IN  IF hits = {} THEN 0 ELSE CHOOSE i \in hits : \A j \in hits : j <= i

\* ForwardReturn by calendar days: the row dated days after the match's row
ForwardReturnByCalendar(rows, index, days) ==
    IF index > 0 /\ dataByDate(rows, ToISODate(rows[index].date) + days) # 0
    THEN <<PctReturn(rows[index].close,
                     rows[dataByDate(rows, ToISODate(rows[index].date) + days)].close)>>
    ELSE <<>>

\* The return of one timeframe for the match at row index: <<returnPct>> when
\* index + days is a row of the series, <<>> when it is past the last row.
ForwardReturn(rows, index, days) ==
    IF index + days <= Len(rows)
    THEN <<PctReturn(rows[index].close, rows[index + days].close)>>
    ELSE <<>>

\* performanceData[period] after one more return was pushed
Tracked(data, returnPct) ==
    [data EXCEPT !.returns = Append(@, returnPct),
                 !.totalCount = @ + 1,
                 !.winCount = IF RGt(returnPct, Zero) THEN @ + 1 ELSE @]

\* MatchStep with a row for a match whose day has no row in the series
MatchStepKeepsRow(rows, periods, acc, match) ==
    LET day == ToISODate(match.date)
        index == IF dataByDate(rows, day) = 0 THEN 1 ELSE dataByDate(rows, day)
        cells == [i \in DOMAIN periods |-> ForwardReturn(rows, index, periods[i][2])]
    IN  [acc EXCEPT
            !.results =
                Append(@, [matchDate |-> day,
                           price |-> ToFixed(R(rows[index].close, 1), 2),
                           eventDetails |-> formatEventDetails(match),
                           returns |-> [i \in DOMAIN periods |->
                                          IF cells[i] = <<>> THEN <<>>
                                          ELSE <<formatReturn(cells[i][1])>>]]),
            !.performanceData =
                [i \in DOMAIN periods |->
                    IF cells[i] = <<>> THEN @[i] ELSE Tracked(@[i], cells[i][1])]]

\* One pass of the loop over matches: acc is results, performanceData and the
\* warnings logged so far.
MatchStep(rows, periods, acc, match) ==
    LET day == ToISODate(match.date)
        index == dataByDate(rows, day)
        cells == [i \in DOMAIN periods |-> ForwardReturn(rows, index, periods[i][2])]
    IN  IF index = 0
        THEN [acc EXCEPT !.log = Append(@, [level |-> "warn", day |-> day])]
        ELSE [acc EXCEPT
                !.results =
                    Append(@, [matchDate |-> day,
                               price |-> ToFixed(R(rows[index].close, 1), 2),
                               eventDetails |-> formatEventDetails(match),
                               returns |-> [i \in DOMAIN periods |->
                                              IF cells[i] = <<>> THEN <<>>
                                              ELSE <<formatReturn(cells[i][1])>>]]),
                !.performanceData =
                    [i \in DOMAIN periods |->
                        IF cells[i] = <<>> THEN @[i] ELSE Tracked(@[i], cells[i][1])]]

RECURSIVE MatchLoop(_, _, _)
MatchLoop(rows, periods, matches) ==
    IF matches = <<>>
    THEN [results |-> <<>>, log |-> <<>>,
          performanceData |->
              [i \in DOMAIN periods |->
                  [period |-> periods[i][1], returns |-> <<>>,
                   winCount |-> 0, totalCount |-> 0]]]
    ELSE MatchStep(rows, periods,
                   MatchLoop(rows, periods, SubSeq(matches, 1, Len(matches) - 1)),
                   matches[Len(matches)])

\* The statistics both calculateSummaryStats and generatePerformanceTable
\* derive from one period's performanceData. The standard deviation is the
\* square root of variance; returnVolRatio = avgReturn / stdDev is held as its
\* sign and its square, which order it exactly.
PeriodStatistics(data) ==
    LET avgReturn == Average(data.returns)
        variance == Average([i \in DOMAIN data.returns |->
                                RMul(RSub(data.returns[i], avgReturn),
                                     RSub(data.returns[i], avgReturn))])
    IN  [avgReturn |-> avgReturn,
         winRate |-> RNorm(R(100 * data.winCount, data.totalCount)),
         maxReturn |-> RMax({data.returns[i] : i \in DOMAIN data.returns}),
         minReturn |-> RMin({data.returns[i] : i \in DOMAIN data.returns}),
         variance |-> variance,
         returnVolRatio |->
             IF variance.n > 0 /\ avgReturn.n # 0
             THEN [sign |-> IF avgReturn.n > 0 THEN 1 ELSE -1,
                   square |-> RNorm(R(avgReturn.n * avgReturn.n * variance.d,
                                      avgReturn.d * avgReturn.d * variance.n))]
             ELSE [sign |-> 0, square |-> Zero]]

\* One row of the table. A period without returns gets a row of "N/A" strings
\* that has no avgReturnRaw, winRateRaw or returnVolRatio property.
PerformanceRow(data) ==
    IF Len(data.returns) > 0
    THEN LET s == PeriodStatistics(data)
         IN  [timeframe |-> data.period,
              avgReturn |-> <<SignedPercent(s.avgReturn)>>,
              winRate |-> <<ToFixed(s.winRate, 1)>>,
              best |-> <<SignedPercent(s.maxReturn)>>,
              worst |-> <<SignedPercent(s.minReturn)>>,
              volatility |-> <<[sqrtOf |-> s.variance]>>,
              samples |-> data.totalCount,
              avgReturnRaw |-> <<s.avgReturn>>,
              winRateRaw |-> <<s.winRate>>,
              returnVolRatio |-> <<s.returnVolRatio>>]
    ELSE [timeframe |-> data.period, avgReturn |-> <<>>, winRate |-> <<>>,
          best |-> <<>>, worst |-> <<>>, volatility |-> <<>>, samples |-> 0,
          avgReturnRaw |-> <<>>, winRateRaw |-> <<>>, returnVolRatio |-> <<>>]

\* row.returnVolRatio || 0
RatioOrZero(row) ==
    IF row.returnVolRatio = <<>> THEN [sign |-> 0, square |-> Zero]
    ELSE row.returnVolRatio[1]

\* x < y for two ratios held as sign and square
RatioLt(x, y) ==
    IF x.sign # y.sign THEN x.sign < y.sign
    ELSE IF x.sign = 1 THEN RLt(x.square, y.square)
    ELSE IF x.sign = -1 THEN RLt(y.square, x.square)
    ELSE FALSE

RECURSIVE InsertByRatioAheadOfTies(_, _)
\* InsertByRatio that puts a row ahead of the rows of its own ratio
InsertByRatioAheadOfTies(sorted, row) ==
    IF sorted = <<>> THEN <<row>>
    ELSE IF RatioLt(RatioOrZero(row), RatioOrZero(sorted[Len(sorted)]))
    THEN Append(sorted, row)
    ELSE Append(InsertByRatioAheadOfTies(SubSeq(sorted, 1, Len(sorted) - 1), row),
                sorted[Len(sorted)])

\* table.rows.sort((a, b) => (b.returnVolRatio || 0) - (a.returnVolRatio || 0)):
\* a stable sort, so a row goes behind every row whose ratio is not lower.
RECURSIVE InsertByRatio(_, _)
InsertByRatio(sorted, row) ==
    IF sorted = <<>> THEN <<row>>
    ELSE IF ~RatioLt(RatioOrZero(sorted[Len(sorted)]), RatioOrZero(row))
    THEN Append(sorted, row)
    ELSE Append(InsertByRatio(SubSeq(sorted, 1, Len(sorted) - 1), row),
                sorted[Len(sorted)])

RECURSIVE SortByRatio(_)
SortByRatio(rows) ==
    IF rows = <<>> THEN <<>>
    ELSE InsertByRatio(SortByRatio(SubSeq(rows, 1, Len(rows) - 1)), rows[Len(rows)])

generatePerformanceTable(performanceData) ==
    [rows |-> SortByRatio([i \in DOMAIN performanceData |->
                              PerformanceRow(performanceData[i])]),
     message |-> NULL]

getEmptyPerformanceTable ==
    [rows |-> <<>>, message |-> "No historical matches found for analysis"]

\* The summary's counts and per-period strings; its two insight strings are
\* left out.
calculateSummaryStats(performanceData, totalMatches) ==
    [totalMatches |-> totalMatches, message |-> NULL,
     periods |->
        [i \in DOMAIN performanceData |->
            IF Len(performanceData[i].returns) > 0
            THEN LET s == PeriodStatistics(performanceData[i])
                 IN  [period |-> performanceData[i].period,
                      avgReturn |-> <<SignedPercent(s.avgReturn)>>,
                      winRate |-> <<ToFixed(s.winRate, 1)>>]
            ELSE [period |-> performanceData[i].period,
                  avgReturn |-> <<>>, winRate |-> <<>>]]]

\* calculate(data, matches, customPeriods): data and matches are JS values,
\* customPeriods is <<>> for null or <<map>> for a timeframe map.
calculate(data, matches, customPeriods) ==
    IF matches.tag # "array" \/ matches.rows = <<>>
    THEN [raised |-> FALSE, results |-> <<>>,
          summary |-> [totalMatches |-> 0,
                       message |-> "No historical instances found for this event pattern",
                       periods |-> <<>>],
          performanceTable |-> getEmptyPerformanceTable,
          dataPointsAnalyzed |-> 0, timeframes |-> <<>>, log |-> <<>>]
    ELSE IF data.tag # "array"
    THEN [raised |-> TRUE, results |-> <<>>,
          summary |-> [totalMatches |-> 0, message |-> NULL, periods |-> <<>>],
          performanceTable |-> [rows |-> <<>>, message |-> NULL],
          dataPointsAnalyzed |-> 0, timeframes |-> <<>>, log |-> <<>>]
    ELSE LET periods == IF customPeriods = <<>> THEN DefaultPeriods
                        ELSE customPeriods[1]
             loop == MatchLoop(data.rows, periods, matches.rows)
         IN  [raised |-> FALSE, results |-> loop.results,
              summary |-> calculateSummaryStats(loop.performanceData, Len(matches.rows)),
              performanceTable |-> generatePerformanceTable(loop.performanceData),
              dataPointsAnalyzed |-> Len(loop.results),
              timeframes |-> [i \in DOMAIN periods |-> periods[i][1]],
              log |-> loop.log]

(***************************************************************************)
(* Calls of ExtendedForwardReturnsCalculator.calculate                     *)
(***************************************************************************)
FRFirstDay == DayNumber(2001, 3, 5)

\* Five trading days, a two-day gap, one more trading day
FRCalendar ==
    <<FRFirstDay, FRFirstDay + 1, FRFirstDay + 2, FRFirstDay + 3, FRFirstDay + 4,
      FRFirstDay + 7>>

\* A feed that delivers the second day twice, the later row corrected
FRCalendarRepeated ==
    <<FRFirstDay, FRFirstDay + 1, FRFirstDay + 1, FRFirstDay + 2, FRFirstDay + 3,
      FRFirstDay + 4>>

FRClosePaths ==
    {<<100, 125, 100, 80, 100, 200>>,
     <<100, 100, 100, 100, 100, 100>>,
     <<200, 100, 50, 100, 200, 160>>}

FRRows(calendar, closes) ==
    Series(calendar, 1, [k \in DOMAIN closes |-> <<closes[k], closes[k]>>])

FRData ==
    {JSArray(FRRows(FRCalendar, closes)) : closes \in FRClosePaths}
        \cup {JSArray(FRRows(FRCalendarRepeated, <<100, 125, 80, 100, 50, 100>>)), JSNull}

\* Days matches fall on: trading days, and a day of the gap
FRMatchDays == {FRFirstDay, FRFirstDay + 1, FRFirstDay + 3, FRFirstDay + 5, FRFirstDay + 7}

FRMatch(day) == [date |-> day * TicksPerDay, return |-> R(day - FRFirstDay - 2, 1)]

FRMatches ==
    {JSArray([i \in 1..n |-> FRMatch(days[i])]) :
        n \in 0..2, days \in [1..2 -> FRMatchDays]}
        \cup {JSNull, JSUndefined}

FRPeriods ==
    {<<>>,
     << << <<"1D", 1>>, <<"2D", 2>> >> >>,
     << << <<"3D", 3>>, <<"1D", 1>>, <<"2D", 2>>, <<"1W", 5>> >> >>}

FRRequests ==
    {[data |-> data, matches |-> matches, customPeriods |-> customPeriods] :
        data \in FRData, matches \in FRMatches, customPeriods \in FRPeriods}

\* A caller calls calculate; the class keeps no state between calls.
Calculate(req) ==
    /\ calc' = [called |-> TRUE, request |-> req,
                result |-> calculate(req.data, req.matches, req.customPeriods)]
    /\ UNCHANGED <<engines, lastCall, filterService, filterCall>>
    /\ UNCHANGED <<serverVars, asyncVars>>

NextForwardReturns == \E req \in FRRequests : Calculate(req)

SpecForwardReturns == Init /\ [][NextForwardReturns]_vars

(***************************************************************************)
(* Properties of calculate                                                 *)
(***************************************************************************)
FRSeries == calc.request.data.rows
FRMatchList == calc.request.matches.rows
FRResult == calc.result

FRNoMatches == calc.request.matches.tag # "array" \/ FRMatchList = <<>>
FRScanned == calc.called /\ ~FRNoMatches /\ calc.request.data.tag = "array"

\* The series has a row on the UTC day of the match.
FRLocated(match) ==
    \E i \in DOMAIN FRSeries : FRSeries[i].date \div TicksPerDay = match.date \div TicksPerDay

FRLocatedMatches == SelectSeq(FRMatchList, FRLocated)

\* C14: calculate does not raise on missing data. Without matches (an empty
\* list, null or undefined) it returns the empty result: no result rows,
\* Total Matches 0, a message, and a performance table without rows. A match
\* whose day has no row in the series is skipped with a warning: it adds no
\* result row and no sample, and the other matches still get their rows, in
\* the order of the match list.
C14_MissingDataIsAbsorbed ==
    /\ (calc.called /\ FRNoMatches) =>
            /\ ~FRResult.raised
            /\ FRResult.results = <<>>
            /\ FRResult.summary.totalMatches = 0
            /\ FRResult.summary.message # NULL
            /\ FRResult.performanceTable.rows = <<>>
    /\ FRScanned =>
            /\ ~FRResult.raised
            /\ [i \in DOMAIN FRResult.results |-> FRResult.results[i].matchDate]
                 = [i \in DOMAIN FRLocatedMatches |->
                        FRLocatedMatches[i].date \div TicksPerDay]
            /\ Len(FRResult.log) = Len(FRMatchList) - Len(FRLocatedMatches)
            /\ \A i \in DOMAIN FRResult.performanceTable.rows :
                   FRResult.performanceTable.rows[i].samples <= Len(FRLocatedMatches)

\* A list of two matches, the first on a day without a row, the second located
C14_Witness ==
    /\ FRScanned
    /\ Len(FRMatchList) = 2
    /\ ~FRLocated(FRMatchList[1])
    /\ FRLocated(FRMatchList[2])
    /\ Len(FRResult.results) = 1
    /\ \E i \in DOMAIN FRResult.performanceTable.rows :
           FRResult.performanceTable.rows[i].samples = 1

\* Without matches and without a series
C14_WitnessEmpty ==
    /\ calc.called
    /\ calc.request.matches.tag = "null"
    /\ calc.request.data.tag = "null"
    /\ FRResult.performanceTable.message # NULL

FRTable == FRResult.performanceTable.rows

\* The place of a timeframe in the timeframe map
FRPlace(label) == CHOOSE i \in DOMAIN FRResult.timeframes : FRResult.timeframes[i] = label

\* C15: for a non-empty match list the performance table has one row per
\* timeframe, sorted by returnVolRatio descending: no row stands before a row
\* with a strictly higher ratio, and rows of equal ratio stand in the order of
\* the timeframe map. A row without samples has no ratio and sorts as 0.
C15_TableSortedByRatio ==
    FRScanned =>
        /\ Len(FRTable) = Len(FRResult.timeframes)
        /\ \A i \in DOMAIN FRTable : \A j \in DOMAIN FRTable :
              i < j =>
                /\ ~RatioLt(RatioOrZero(FRTable[i]), RatioOrZero(FRTable[j]))
                /\ FRTable[i].timeframe # FRTable[j].timeframe
                /\ ~RatioLt(RatioOrZero(FRTable[j]), RatioOrZero(FRTable[i]))
                     => FRPlace(FRTable[i].timeframe) < FRPlace(FRTable[j].timeframe)

\* A table where the sort moved a later timeframe ahead of an earlier one with
\* a lower ratio, and that also holds two sampled rows of equal ratio
C15_Witness ==
    /\ FRScanned
    /\ \E i \in DOMAIN FRTable : \E j \in DOMAIN FRTable :
          /\ i < j
          /\ FRPlace(FRTable[i].timeframe) > FRPlace(FRTable[j].timeframe)
          /\ RatioLt(RatioOrZero(FRTable[j]), RatioOrZero(FRTable[i]))
    /\ \E i \in DOMAIN FRTable : \E j \in DOMAIN FRTable :
          /\ i < j
          /\ FRTable[i].samples > 0
          /\ FRTable[j].samples > 0
          /\ RatioOrZero(FRTable[i]) = RatioOrZero(FRTable[j])
    /\ \E i \in DOMAIN FRTable : RatioOrZero(FRTable[i]).sign = -1

\* The series index a located match is found at: the last row of its day
FRIndexOf(match) ==
    CHOOSE k \in DOMAIN FRSeries :
        /\ FRSeries[k].date \div TicksPerDay = match.date \div TicksPerDay
        /\ \A j \in DOMAIN FRSeries :
              FRSeries[j].date \div TicksPerDay = match.date \div TicksPerDay => j <= k

FROffsets == IF calc.request.customPeriods = <<>> THEN DefaultPeriods
             ELSE calc.request.customPeriods[1]

\* The located matches, by their place in the result, whose index plus n is
\* still a row of the series
FRInBounds(n) ==
    {r \in DOMAIN FRLocatedMatches : FRIndexOf(FRLocatedMatches[r]) + n <= Len(FRSeries)}

FRCloseAt(r, n) == FRSeries[FRIndexOf(FRLocatedMatches[r]) + n].close

\* cell is the string of (to - from) / from * 100 with two decimals: a sign
\* when the return is not negative, and the nearest count of hundredths.
FRCellHolds(cell, from, to) ==
    /\ cell.formatted.plus = (to >= from)
    /\ cell.formatted.text.negative = (to < from)
    /\ cell.formatted.text.digits = 2
    /\ 2 * IAbs(cell.formatted.text.units * from - 10000 * IAbs(to - from)) <= from

FRTableRowOf(label) == CHOOSE i \in DOMAIN FRTable : FRTable[i].timeframe = label

\* C16: forward returns go by index. For each match located at index k and
\* each timeframe (label, n) the result row holds the return
\* (close[k+n] - close[k]) / close[k] * 100 when k + n is inside the series,
\* and "N/A" otherwise; only the former is a sample. So a timeframe's sample
\* count is the number of located matches with k + n in bounds, its win rate
\* the share of those with a positive return, and its average their mean.
C16_ReturnsAreIndexBased ==
    FRScanned =>
        \A i \in DOMAIN FROffsets :
            LET n == FROffsets[i][2]
                row == FRTable[FRTableRowOf(FROffsets[i][1])]
                wins == {r \in FRInBounds(n) : FRCloseAt(r, n) > FRCloseAt(r, 0)}
            IN  /\ \A r \in DOMAIN FRLocatedMatches :
                      IF r \in FRInBounds(n)
                      THEN /\ FRResult.results[r].returns[i] # <<>>
                           /\ FRCellHolds(FRResult.results[r].returns[i][1],
                                          FRCloseAt(r, 0), FRCloseAt(r, n))
                      ELSE FRResult.results[r].returns[i] = <<>>
                /\ row.samples = Cardinality(FRInBounds(n))
                /\ FRInBounds(n) # {} =>
                      /\ row.winRateRaw[1].n * Cardinality(FRInBounds(n))
                            = 100 * Cardinality(wins) * row.winRateRaw[1].d
                      /\ RMul(row.avgReturnRaw[1], R(Cardinality(FRInBounds(n)), 1))
                            = RSum([r \in DOMAIN FRLocatedMatches |->
                                      IF r \in FRInBounds(n)
                                      THEN PctReturn(FRCloseAt(r, 0), FRCloseAt(r, n))
                                      ELSE Zero])
                /\ FRInBounds(n) = {} => row.winRateRaw = <<>>

\* Two located matches and a timeframe that reaches across the gap in the
\* calendar for one of them and past the end of the series for the other,
\* beside a timeframe with one winning and one losing sample
C16_Witness ==
    /\ FRScanned
    /\ Len(FRLocatedMatches) = 2
    /\ \E i \in DOMAIN FROffsets :
          /\ Cardinality(FRInBounds(FROffsets[i][2])) = 1
          /\ \E r \in FRInBounds(FROffsets[i][2]) :
                LET k == FRIndexOf(FRLocatedMatches[r])
                IN  FRSeries[k + FROffsets[i][2]].date \div TicksPerDay
                        > FRSeries[k].date \div TicksPerDay + FROffsets[i][2]
    /\ \E i \in DOMAIN FROffsets :
          /\ Cardinality(FRInBounds(FROffsets[i][2])) = 2
          /\ FRTable[FRTableRowOf(FROffsets[i][1])].winRateRaw = <<R(50, 1)>>

(***************************************************************************)
(* ContextualFilterService (contextual-filters.js)                         *)
(*                                                                         *)
(* A date string 'YYYY-MM-DD' is held as its day number; new Date(dateStr) *)
(* reads it as midnight UTC of that day. The tables hold Dates built with  *)
(* new Date(year, month, day): midnight local time, tz ticks ahead of UTC. *)
(***************************************************************************)
ParseISODate(day) == day * TicksPerDay

\* this.cacheTimeout: 24 hours
cacheTimeout == TicksPerDay

\* A key that leaves out the last year of the range
TableCacheKeyByStartYear(prefix, startYear, endYear) ==
    prefix \o "_" \o ToString(startYear)

\* `${prefix}_${startYear}_${endYear}`, such as `earnings_2020_2024`
TableCacheKey(prefix, startYear, endYear) ==
    prefix \o "_" \o ToString(startYear) \o "_" \o ToString(endYear)

\* this.cache is a Map: here a function from the keys set so far to their
\* entries.
\* this.cache.has(cacheKey) && Date.now() - cached.timestamp < this.cacheTimeout
CacheFresh(cache, key, now) ==
    /\ key \in DOMAIN cache
    /\ now - cache[key].timestamp < cacheTimeout

\* The memoisation the three table getters share: the cached table while it is
\* fresh, else the computed table, which is then cached with the time now.
Memoized(cache, key, now, computed) ==
    IF CacheFresh(cache, key, now)
    THEN [data |-> cache[key].data, cache |-> cache]
    ELSE [data |-> computed,
          cache |-> [k \in DOMAIN cache \cup {key} |->
                        IF k = key THEN [data |-> computed, timestamp |-> now]
                        ELSE cache[k]]]

Season(quarter, year, startYMD, endYMD, tz) ==
    [quarter |-> quarter, year |-> year,
     start |-> NewDate(startYMD[1], startYMD[2], startYMD[3], tz),
     end |-> NewDate(endYMD[1], endYMD[2], endYMD[3], tz)]

\* The loop over the years of getEarningsSeasonDates
RECURSIVE EarningsSeasons(_, _, _)
EarningsSeasons(year, endYear, tz) ==
    IF year > endYear THEN <<>>
    ELSE <<Season("Q1", year, <<year, 4, 15>>, <<year, 5, 15>>, tz),
           Season("Q2", year, <<year, 7, 15>>, <<year, 8, 15>>, tz),
           Season("Q3", year, <<year, 10, 15>>, <<year, 11, 15>>, tz)>>
         \o (IF year < endYear
             THEN <<Season("Q4", year, <<year + 1, 1, 15>>, <<year + 1, 2, 15>>, tz)>>
             ELSE <<>>)
         \o EarningsSeasons(year + 1, endYear, tz)

getEarningsSeasonDates(cache, startYear, endYear, now, tz) ==
    Memoized(cache, TableCacheKey("earnings", startYear, endYear), now,
             EarningsSeasons(startYear, endYear, tz))

\* earningsSeasons.some(season => date >= season.start && date <= season.end)
InEarningsSeason(seasons, date) ==
    \E i \in DOMAIN seasons : date >= seasons[i].start /\ date <= seasons[i].end

\* The meeting table: year, month, day of each entry, in the table's order
fedMeetings ==
    <<<<2020, 1, 29>>, <<2020, 3, 15>>, <<2020, 3, 3>>, <<2020, 4, 29>>,
      <<2020, 6, 10>>, <<2020, 7, 29>>, <<2020, 9, 16>>, <<2020, 11, 5>>,
      <<2020, 12, 16>>,
      <<2021, 1, 27>>, <<2021, 3, 17>>, <<2021, 4, 28>>, <<2021, 6, 16>>,
      <<2021, 7, 28>>, <<2021, 9, 22>>, <<2021, 11, 3>>, <<2021, 12, 15>>,
      <<2022, 1, 26>>, <<2022, 3, 16>>, <<2022, 5, 4>>, <<2022, 6, 15>>,
      <<2022, 7, 27>>, <<2022, 9, 21>>, <<2022, 11, 2>>, <<2022, 12, 14>>,
      <<2023, 2, 1>>, <<2023, 3, 22>>, <<2023, 5, 3>>, <<2023, 6, 14>>,
      <<2023, 7, 26>>, <<2023, 9, 20>>, <<2023, 11, 1>>, <<2023, 12, 13>>,
      <<2024, 1, 31>>, <<2024, 3, 20>>, <<2024, 5, 1>>, <<2024, 6, 12>>,
      <<2024, 7, 31>>, <<2024, 9, 18>>, <<2024, 11, 7>>, <<2024, 12, 18>>>>

\* fedMeetings.filter(meeting => meeting.year >= startYear && meeting.year <= endYear)
FilteredMeetings(startYear, endYear, tz) ==
    LET kept == SelectSeq(fedMeetings, LAMBDA ymd : ymd[1] >= startYear /\ ymd[1] <= endYear)
    IN  [i \in DOMAIN kept |->
            [date |-> NewDate(kept[i][1], kept[i][2], kept[i][3], tz), year |-> kept[i][1]]]

getFedMeetingDates(cache, startYear, endYear, now, tz) ==
    Memoized(cache, TableCacheKey("fed_meetings", startYear, endYear), now,
             FilteredMeetings(startYear, endYear, tz))

\* The week test isFedMeetingWeek and isOptionsExpirationWeek share: from
\* before days ahead of the event's date to after days behind it, each bound
\* set with setDate(getDate() -/+ n).
InWeekOf(events, date, before, after, tz) ==
    \E i \in DOMAIN events :
        /\ date >= setDate(events[i].date, getDate(events[i].date, tz) - before, tz)
        /\ date <= setDate(events[i].date, getDate(events[i].date, tz) + after, tz)

\* getThirdFriday(year, month): month counts from 1 here
getThirdFriday(year, month, tz) ==
    LET firstDay == NewDate(year, month, 1, tz)
        firstFriday == NewDate(year, month, 1 + ((5 - getDay(firstDay, tz) + 7) % 7), tz)
    IN  setDate(firstFriday, getDate(firstFriday, tz) + 14, tz)

\* The loops over years and months of getOptionsExpirationDates: a year gives
\* 16 entries, one per month and a second one for each month that ends a quarter.
ExpirationDates(startYear, endYear, tz) ==
    [k \in 1..(16 * (endYear - startYear + 1)) |->
        LET year == startYear + ((k - 1) \div 16)
            place == (k - 1) % 16
            month == 3 * (place \div 4) + (IF place % 4 = 3 THEN 3 ELSE (place % 4) + 1)
        IN  [date |-> getThirdFriday(year, month, tz), year |-> year, month |-> month,
             triple_witching |-> (place % 4 = 3)]]

getOptionsExpirationDates(cache, startYear, endYear, now, tz) ==
    Memoized(cache, TableCacheKey("options_exp", startYear, endYear), now,
             ExpirationDates(startYear, endYear, tz))

\* dayMap[day.toUpperCase()] for the day names callers pass; another name has
\* no entry in dayMap and reads undefined (here -1), which no weekday equals.
dayMap(day) ==
    CASE day \in {"SUNDAY", "sunday"} -> 0
      [] day \in {"MONDAY", "monday"} -> 1
      [] day \in {"TUESDAY", "tuesday"} -> 2
      [] day \in {"WEDNESDAY", "wednesday"} -> 3
      [] day \in {"THURSDAY", "thursday"} -> 4
      [] day \in {"FRIDAY", "friday"} -> 5
      [] day \in {"SATURDAY", "saturday"} -> 6
      [] OTHER -> -1

filterByDayOfWeek(dates, targetDays, tz) ==
    LET targetDayNumbers == {dayMap(targetDays[i]) : i \in DOMAIN targetDays}
    IN  SelectSeq(dates, LAMBDA dateStr : getDay(ParseISODate(dateStr), tz) \in targetDayNumbers)

\* date.getMonth() + 1
MonthOf(date, tz) == MonthOfDay(LocalDay(date, tz))

\* One pass of the loop over filters. acc holds filteredDates, the service's
\* cache and the warnings logged. A table getter runs once for each date the
\* filter tests, all at the time now: the first of them refreshes the cache,
\* and no date means no call. additionalFilters holds day_filter and
\* month_filter, each <<>> when absent or <<list>>.
FilterStep(acc, filter, additionalFilters, now, tz) ==
    IF filter \in {"EARNINGS_SEASON", "FED_MEETING", "OPTIONS_EXPIRATION"}
    THEN IF acc.dates = <<>> THEN acc
         ELSE LET table ==
                    IF filter = "EARNINGS_SEASON"
                    THEN getEarningsSeasonDates(acc.cache, 2020, 2024, now, tz)
                    ELSE IF filter = "FED_MEETING"
                    THEN getFedMeetingDates(acc.cache, 2020, 2024, now, tz)
                    ELSE getOptionsExpirationDates(acc.cache, 2020, 2024, now, tz)
                  Passes(dateStr) ==
                    IF filter = "EARNINGS_SEASON"
                    THEN InEarningsSeason(table.data, ParseISODate(dateStr))
                    ELSE IF filter = "FED_MEETING"
                    THEN InWeekOf(table.data, ParseISODate(dateStr), 3, 3, tz)
                    ELSE InWeekOf(table.data, ParseISODate(dateStr), 4, 2, tz)
              IN  [acc EXCEPT !.dates = SelectSeq(@, Passes), !.cache = table.cache]
    ELSE IF filter = "DAY_OF_WEEK"
    THEN IF additionalFilters.day_filter = <<>> THEN acc
         ELSE [acc EXCEPT !.dates = filterByDayOfWeek(@, additionalFilters.day_filter[1], tz)]
    ELSE IF filter = "MONTH_OF_YEAR"
    THEN IF additionalFilters.month_filter = <<>> THEN acc
         ELSE [acc EXCEPT !.dates =
                 SelectSeq(@, LAMBDA dateStr :
                     \E i \in DOMAIN additionalFilters.month_filter[1] :
                         additionalFilters.month_filter[1][i]
                            = MonthOf(ParseISODate(dateStr), tz))]
    ELSE [acc EXCEPT !.log = Append(@, [level |-> "warn", filter |-> filter])]

\* FilterLoop that stops after the first filter of the list
FilterLoopFirstOnly(acc, filters, additionalFilters, now, tz) ==
    IF filters = <<>> THEN acc
    ELSE FilterStep(acc, Head(filters), additionalFilters, now, tz)

RECURSIVE FilterLoop(_, _, _, _, _)
FilterLoop(acc, filters, additionalFilters, now, tz) ==
    IF filters = <<>> THEN acc
    ELSE FilterLoop(FilterStep(acc, Head(filters), additionalFilters, now, tz),
                    Tail(filters), additionalFilters, now, tz)

applyContextFilters(cache, dates, filters, additionalFilters, now, tz) ==
    FilterLoop([dates |-> dates, cache |-> cache, log |-> <<>>],
               filters, additionalFilters, now, tz)

(***************************************************************************)
(* Calls of the filter service                                             *)
(***************************************************************************)
\* Offsets of the server's local time from UTC, in ticks
ServerZones == {-1, 0, 1}

FilterNow0 == DayNumber(2025, 3, 3) * TicksPerDay

\* Times of calls: two within the cache's timeout of each other, one past it
FilterTimes == {FilterNow0, FilterNow0 + 1, FilterNow0 + cacheTimeout}

\* The clock does not run backwards: no cache entry is younger than now.
ClockAt(now) ==
    \A key \in DOMAIN filterService.cache : filterService.cache[key].timestamp <= now

FilterCalled(req, returned, log) ==
    [method |-> req.method, now |-> req.now, dates |-> req.dates,
     filters |-> req.filters, additionalFilters |-> req.additionalFilters,
     range |-> req.range, returned |-> returned, log |-> log,
     cacheBefore |-> filterService.cache]

ApplyContextFilters(req) ==
    /\ req.method = "applyContextFilters"
    /\ ClockAt(req.now)
    /\ \E out \in {applyContextFilters(filterService.cache, req.dates, req.filters,
                                       req.additionalFilters, req.now, filterService.tz)} :
           /\ filterService' = [filterService EXCEPT !.cache = out.cache]
           /\ filterCall' = FilterCalled(req, out.dates, out.log)
    /\ UNCHANGED <<engines, lastCall, calc>>
    /\ UNCHANGED <<serverVars, asyncVars>>

\* A call of one of the three table getters with a range of years
GetTable(req, out) ==
    /\ ClockAt(req.now)
    /\ filterService' = [filterService EXCEPT !.cache = out.cache]
    /\ filterCall' = FilterCalled(req, out.data, <<>>)
    /\ UNCHANGED <<engines, lastCall, calc>>
    /\ UNCHANGED <<serverVars, asyncVars>>

GetEarningsSeasonDates(req) ==
    /\ req.method = "getEarningsSeasonDates"
    /\ GetTable(req, getEarningsSeasonDates(filterService.cache, req.range[1],
                                            req.range[2], req.now, filterService.tz))

GetFedMeetingDates(req) ==
    /\ req.method = "getFedMeetingDates"
    /\ GetTable(req, getFedMeetingDates(filterService.cache, req.range[1],
                                        req.range[2], req.now, filterService.tz))

GetOptionsExpirationDates(req) ==
    /\ req.method = "getOptionsExpirationDates"
    /\ GetTable(req, getOptionsExpirationDates(filterService.cache, req.range[1],
                                               req.range[2], req.now, filterService.tz))

\* clearCache()
ClearCache(req) ==
    /\ req.method = "clearCache"
    /\ ClockAt(req.now)
    /\ filterService' = [filterService EXCEPT !.cache = <<>>]
    /\ filterCall' = FilterCalled(req, <<>>, <<[level |-> "log"]>>)
    /\ UNCHANGED <<engines, lastCall, calc>>
    /\ UNCHANGED <<serverVars, asyncVars>>

FilterRequest(method, dates, filters, additionalFilters, range, now) ==
    [method |-> method, dates |-> dates, filters |-> filters,
     additionalFilters |-> additionalFilters, range |-> range, now |-> now]

NoAdditionalFilters == [day_filter |-> <<>>, month_filter |-> <<>>]

\* Dates of spring 2021 that the filters tell apart, one of them twice
FilterDates ==
    <<DayNumber(2021, 4, 30), DayNumber(2021, 4, 14), DayNumber(2021, 4, 16),
      DayNumber(2021, 6, 16), DayNumber(2021, 4, 26), DayNumber(2021, 5, 20),
      DayNumber(2021, 4, 16)>>

FilterNames ==
    {"EARNINGS_SEASON", "FED_MEETING", "OPTIONS_EXPIRATION", "DAY_OF_WEEK",
     "MONTH_OF_YEAR", "SECTOR_ROTATION"}

\* Lists of up to two filters, and the three table filters in two orders
FilterLists ==
    {<<>>}
      \cup {<<f>> : f \in FilterNames}
      \cup {<<f, g>> : f \in FilterNames, g \in FilterNames}
      \cup {<<"EARNINGS_SEASON", "FED_MEETING", "OPTIONS_EXPIRATION">>,
            <<"OPTIONS_EXPIRATION", "FED_MEETING", "EARNINGS_SEASON">>}

\* Calls that follow one another on the same service
FilterRequests ==
    {FilterRequest("applyContextFilters", FilterDates, filters, NoAdditionalFilters, <<>>, now) :
        filters \in {<<"EARNINGS_SEASON">>, <<"FED_MEETING", "OPTIONS_EXPIRATION">>,
                     <<"DAY_OF_WEEK", "SECTOR_ROTATION">>},
        now \in FilterTimes}
      \cup {FilterRequest(method, <<>>, <<>>, NoAdditionalFilters, <<2020, 2024>>, now) :
              method \in {"getEarningsSeasonDates", "getFedMeetingDates",
                          "getOptionsExpirationDates", "clearCache"},
              now \in FilterTimes}

\* The service starts in a process of any of the zones.
InitFilters ==
    /\ engines = InitEngines
    /\ lastCall = NoCall
    /\ calc = NoCalculation
    /\ filterService \in {NewFilterService(tz) : tz \in ServerZones}
    /\ filterCall = NoFilterCall
    /\ userDoc = NewUser("starter")
    /\ queryCache = <<>>
    /\ queryHistory = <<>>
    /\ response = NoResponse
    /\ inflight = <<>>
    /\ running = <<>>

NextFilters ==
    \E req \in FilterRequests :
        \/ ApplyContextFilters(req)
        \/ GetEarningsSeasonDates(req)
        \/ GetFedMeetingDates(req)
        \/ GetOptionsExpirationDates(req)
        \/ ClearCache(req)

SpecFilters == InitFilters /\ [][NextFilters]_vars

(***************************************************************************)
(* First calls on a fresh filter service                                   *)
(***************************************************************************)
\* The days from first to last
DayList(first, last) == [k \in 1..(last - first + 1) |-> first + k - 1]

\* Around each meeting of the table: the days from 4 before to 4 after it
FedScanRequests ==
    {FilterRequest("applyContextFilters",
                   DayList(DayNumber(ymd[1], ymd[2], ymd[3]) - 4,
                           DayNumber(ymd[1], ymd[2], ymd[3]) + 4),
                   <<"FED_MEETING">>, NoAdditionalFilters, <<>>, FilterNow0) :
        ymd \in {fedMeetings[i] : i \in DOMAIN fedMeetings}}

\* The earnings windows of a year: first and last day of each
EarningsWindows(year) ==
    {<<DayNumber(year, 4, 15), DayNumber(year, 5, 15)>>,
     <<DayNumber(year, 7, 15), DayNumber(year, 8, 15)>>,
     <<DayNumber(year, 10, 15), DayNumber(year, 11, 15)>>,
     <<DayNumber(year + 1, 1, 15), DayNumber(year + 1, 2, 15)>>}

\* Around each bound of each window of the years 2020 to 2024
EarningsScanRequests ==
    {FilterRequest("applyContextFilters",
                   DayList(window[1] - 1, window[1] + 1) \o DayList(window[2] - 1, window[2] + 1),
                   <<"EARNINGS_SEASON">>, NoAdditionalFilters, <<>>, FilterNow0) :
        window \in UNION {EarningsWindows(year) : year \in 2020..2024}}
      \cup {FilterRequest("getEarningsSeasonDates", <<>>, <<>>, NoAdditionalFilters,
                          range, FilterNow0) :
              range \in {<<2020, 2024>>, <<2021, 2022>>, <<2023, 2023>>}}

\* Every list of filters on the dates of spring 2021
ListScanRequests ==
    {FilterRequest("applyContextFilters", FilterDates, filters, additionalFilters,
                   <<>>, FilterNow0) :
        filters \in FilterLists,
        additionalFilters \in
            {NoAdditionalFilters,
             [day_filter |-> <<<<"friday", "WEDNESDAY">>>>, month_filter |-> <<<<4, 6>>>>]}}

FilterScanRequests == FedScanRequests \cup EarningsScanRequests \cup ListScanRequests

FilterScan(req) ==
    /\ filterCall.method = "none"
    /\ ApplyContextFilters(req)

EarningsTableScan(req) ==
    /\ filterCall.method = "none"
    /\ GetEarningsSeasonDates(req)

NextFilterScan ==
    \E req \in FilterScanRequests :
        \/ FilterScan(req)
        \/ EarningsTableScan(req)

SpecFilterScan == InitFilters /\ [][NextFilterScan]_vars

(***************************************************************************)
(* Properties of the filter service                                        *)
(***************************************************************************)
FilterApplied == filterCall.method = "applyContextFilters"

\* The predicate of one requested filter on one date string, read off the
\* freshly built tables; a filter without its additional list, and a filter
\* the service does not know, let every date pass.
Satisfies(filter, dateStr) ==
    LET tz == filterService.tz
        date == ParseISODate(dateStr)
        more == filterCall.additionalFilters
    IN  CASE filter = "EARNINGS_SEASON" ->
                InEarningsSeason(EarningsSeasons(2020, 2024, tz), date)
          [] filter = "FED_MEETING" ->
                InWeekOf(FilteredMeetings(2020, 2024, tz), date, 3, 3, tz)
          [] filter = "OPTIONS_EXPIRATION" ->
                InWeekOf(ExpirationDates(2020, 2024, tz), date, 4, 2, tz)
          [] filter = "DAY_OF_WEEK" ->
                \/ more.day_filter = <<>>
                \/ \E i \in DOMAIN more.day_filter[1] :
                      dayMap(more.day_filter[1][i]) = getDay(date, tz)
          [] filter = "MONTH_OF_YEAR" ->
                \/ more.month_filter = <<>>
                \/ \E i \in DOMAIN more.month_filter[1] :
                      more.month_filter[1][i] = MonthOf(date, tz)
          [] OTHER -> TRUE

SatisfiesAll(dateStr) ==
    \A i \in DOMAIN filterCall.filters : Satisfies(filterCall.filters[i], dateStr)

\* C17: applyContextFilters composes the requested filters as a logical AND.
\* Its output is the input list without the dates that fail some requested
\* filter, the others in their input order, so it holds no date that is not
\* in the input; and listing the filters in the opposite order gives the same
\* output.
C17_FiltersComposeAsAnd ==
    FilterApplied =>
        /\ filterCall.returned = SelectSeq(filterCall.dates, SatisfiesAll)
        /\ filterCall.returned
             = applyContextFilters(<<>>, filterCall.dates,
                                   [i \in DOMAIN filterCall.filters |->
                                       filterCall.filters[Len(filterCall.filters) + 1 - i]],
                                   filterCall.additionalFilters, filterCall.now,
                                   filterService.tz).dates

\* Two different filters that each drop dates the other keeps, and dates
\* that pass both
C17_Witness ==
    /\ FilterApplied
    /\ Len(filterCall.filters) = 2
    /\ filterCall.returned # <<>>
    /\ \E i \in DOMAIN filterCall.dates :
          /\ Satisfies(filterCall.filters[1], filterCall.dates[i])
          /\ ~Satisfies(filterCall.filters[2], filterCall.dates[i])
    /\ \E i \in DOMAIN filterCall.dates :
          /\ ~Satisfies(filterCall.filters[1], filterCall.dates[i])
          /\ Satisfies(filterCall.filters[2], filterCall.dates[i])

\* dateStr is one of the dates of the list.
Among(dates, dateStr) == \E i \in DOMAIN dates : dates[i] = dateStr

FedMeetingDays == {DayNumber(fedMeetings[i][1], fedMeetings[i][2], fedMeetings[i][3]) : i \in DOMAIN fedMeetings}

\* C18: filtering by FED_MEETING keeps, for every meeting date d of the
\* table, each of the calendar days d-3, d-2, ..., d+3 that is in the input,
\* and drops d+4.
C18_FedMeetingWindow ==
    (FilterApplied /\ filterCall.filters = <<"FED_MEETING">>) =>
        \A d \in FedMeetingDays :
            /\ \A k \in -3..3 :
                  Among(filterCall.dates, d + k) => Among(filterCall.returned, d + k)
            /\ ~Among(filterCall.returned, d + 4)

\* C19: for every year Y of the requested range the table of
\* getEarningsSeasonDates holds four windows, Apr 15 to May 15, Jul 15 to
\* Aug 15 and Oct 15 to Nov 15 of Y and Jan 15 to Feb 15 of Y+1; and a date
\* passes the EARNINGS_SEASON filter, whose table is that of 2020 to 2024,
\* exactly when it lies in one of these windows, bounds included.
C19_EarningsWindows ==
    /\ filterCall.method = "getEarningsSeasonDates" =>
          \A year \in filterCall.range[1]..filterCall.range[2] :
              \A window \in EarningsWindows(year) :
                  \E i \in DOMAIN filterCall.returned :
                      /\ LocalDay(filterCall.returned[i].start, filterService.tz) = window[1]
                      /\ LocalDay(filterCall.returned[i].end, filterService.tz) = window[2]
    /\ (FilterApplied /\ filterCall.filters = <<"EARNINGS_SEASON">>) =>
          \A i \in DOMAIN filterCall.dates :
              Among(filterCall.returned, filterCall.dates[i])
                <=> \E year \in 2020..2024 : \E window \in EarningsWindows(year) :
                        /\ window[1] <= filterCall.dates[i]
                        /\ filterCall.dates[i] <= window[2]

(***************************************************************************)
(* The API server (server.js): tiers, middleware and POST /api/analyze     *)
(***************************************************************************)
\* strategies is the string 'all' or a list of event kinds.
TIER_LIMITS ==
    [starter |-> [queries |-> 200, all |-> FALSE,
                  strategies |-> {"PERCENT_MOVE", "REVERSAL"}],
     pro |-> [queries |-> 1000, all |-> TRUE, strategies |-> {}],
     pro_journal |-> [queries |-> 1000, all |-> TRUE, strategies |-> {}],
     enterprise |-> [queries |-> -1, all |-> TRUE, strategies |-> {}]]

\* new Date(now.getFullYear(), now.getMonth(), 1)
MonthStart(now, tz) ==
    NewDate(YearOfDay(LocalDay(now, tz)), MonthOfDay(LocalDay(now, tz)), 1, tz)

\* !user.usage.lastResetDate || user.usage.lastResetDate < monthStart
ResetDue(user, now, tz) ==
    user.lastResetDate = <<>> \/ user.lastResetDate[1] < MonthStart(now, tz)

\* checkSubscriptionLimits: the user document as it is saved, and whether the
\* request goes on (next) or is answered 429.
checkSubscriptionLimits(user, now, tz) ==
    LET saved == IF ResetDue(user, now, tz)
                 THEN [user EXCEPT !.queriesThisMonth = 0, !.lastResetDate = <<now>>]
                 ELSE user
        limit == TIER_LIMITS[user.tier].queries
    IN  [user |-> saved, next |-> ~(limit # -1 /\ saved.queriesThisMonth >= limit)]

\* checkStrategyAccess: a body property is <<>> when absent, else <<value>>.
\* strategy = data.strategy || data.event_type; next() unless the tier lists
\* its strategies and strategy is not among them.
checkStrategyAccess(user, body) ==
    LET strategy == IF body.strategy # <<>> THEN body.strategy ELSE body.event_type
        tierInfo == TIER_LIMITS[user.tier]
    IN  [strategy |-> strategy,
         next |-> ~(~tierInfo.all /\ ~(\E i \in DOMAIN strategy :
                                          strategy[i] \in tierInfo.strategies))]

updateUserUsage(user, now, tz) ==
    [user EXCEPT
        !.queriesThisMonth = IF ResetDue(user, now, tz) THEN 1 ELSE @ + 1,
        !.lastResetDate = IF ResetDue(user, now, tz) THEN <<now>> ELSE @,
        !.totalQueries = @ + 1,
        !.lastLogin = <<now>>]

\* generateQueryHash: JSON.stringify(queryData, ['parameters', 'strategy',
\* 'ticker']) writes, at every depth, only the properties the array names, so
\* of parameters only properties with one of these three names are written.
\* The digest is taken to tell apart any two different strings.
generateQueryHash(strategy, ticker, parameters) ==
    [strategy |-> strategy, ticker |-> ticker,
     parameters |-> [k \in DOMAIN parameters \cap {"parameters", "strategy", "ticker"} |->
                        parameters[k]]]

\* { ...aiResult.parameters, periods: periods || {...} }
WithPeriods(parameters, periods) ==
    [periods |-> IF periods = <<>> THEN DefaultPeriods ELSE periods[1]]
        @@ (IF parameters.tag = "object" THEN parameters.props ELSE <<>>)

\* What the route answers: the HTTP status and the parts of the JSON body
Answer(status, error, eventType, cached, results, summary, matches) ==
    [status |-> status, error |-> error, eventType |-> eventType, cached |-> cached,
     results |-> results, summary |-> summary, matches |-> matches, request |-> <<>>]

Rejected(status, error) == Answer(status, error, NULL, FALSE, <<>>, <<>>, 0)

\* match => new Date(match.date).toISOString().split('T')[0]
MatchDay(match) == ToISODate(match.date)

\* Step 4 of the route: the matches that pass the context filters, and the
\* filter service's cache afterwards. A match without a date makes
\* toISOString throw; the catch goes on with the unfiltered matches.
ContextFiltered(matches, ai, cache, now, tz) ==
    IF ai.context_filters = <<>> \/ matches = <<>>
          \/ \E i \in DOMAIN matches : ~Has(matches[i], "date")
    THEN [matches |-> matches, cache |-> cache, applied |-> FALSE]
    ELSE LET out == applyContextFilters(cache, [i \in DOMAIN matches |-> MatchDay(matches[i])],
                                        ai.context_filters, ai.additional_filters, now, tz)
         IN  [matches |-> SelectSeq(matches, LAMBDA match : Among(out.dates, MatchDay(match))),
              cache |-> out.cache, applied |-> TRUE]

\* Step 5 of the route: results and summary. fetch is the provider's answer
\* for the ticker; when the fetch or calculate throws, the catch lists the
\* matches instead.
ForwardResults(eventType, eventSummary, filteredMatches, fetch, periods) ==
    IF filteredMatches # <<>> /\ eventType # "MACRO_EVENT"
    THEN LET forwardResults ==
                 calculate(JSArray(fetch.rows), JSArray(filteredMatches),
                           <<IF periods = <<>> THEN DefaultPeriods ELSE periods[1]>>)
         IN  IF ~fetch.ok \/ forwardResults.raised
             THEN [results |-> [i \in DOMAIN filteredMatches |->
                                   [matchDate |-> MatchDay(filteredMatches[i])]],
                   summary |-> [event |-> eventSummary, forward |-> <<>>, message |-> NULL]]
             ELSE [results |-> forwardResults.results,
                   summary |-> [event |-> eventSummary,
                                forward |-> <<forwardResults.summary>>, message |-> NULL]]
    ELSE IF eventType = "MACRO_EVENT"
    THEN [results |-> [i \in DOMAIN filteredMatches |-> [signal |-> "Macro"]],
          summary |-> [event |-> eventSummary, forward |-> <<>>, message |-> NULL]]
    ELSE [results |-> <<>>,
          summary |-> [event |-> eventSummary, forward |-> <<>>,
                       message |-> "No historical instances found"]]

\* The arguments of engineCoordinator.runEventAnalysis, with what the
\* environment answers while it runs
EngineRun(ai, req, tz) ==
    [op |-> "run", eventType |-> ai.event_type, ticker |-> ai.ticker, data |-> JSUndefined,
     parameters |-> ai.parameters, market |-> req.market, firstRejection |-> 1,
     now |-> req.now, tz |-> tz]

\* Steps 5 to 7 of the handler: the result is stored under the cache key, the
\* user's usage is counted, the query is logged and the answer is sent.
AnalysedForward(st, req, ai, cacheKey, tz, out, filtered, forward) ==
    [st EXCEPT
        !.engines = out.engines,
        !.filterCache = filtered.cache,
        !.queryCache =
            [k \in DOMAIN @ \cup {cacheKey} |->
                IF k = cacheKey
                THEN [strategy |-> ai.event_type, ticker |-> ai.ticker,
                      parameters |-> ai.parameters, results |-> forward.results,
                      summary |-> forward.summary, hitCount |-> 1]
                ELSE @[k]],
        !.user = updateUserUsage(@, req.now, tz),
        !.queryHistory =
            Append(@, [query |-> req.body.query[1], strategy |-> ai.event_type,
                       ticker |-> ai.ticker, cached |-> FALSE]),
        !.response = Answer(200, NULL, ai.event_type, FALSE, forward.results,
                            forward.summary, Len(filtered.matches)),
        !.ran = <<out>>]

\* Step 5 of the handler, on the matches the context filters let through
AnalysedFiltered(st, req, ai, cacheKey, tz, out, filtered) ==
    AnalysedForward(st, req, ai, cacheKey, tz, out, filtered,
                    ForwardResults(ai.event_type, out.returned.summary, filtered.matches,
                                   MarketData(req.market)[ai.ticker], req.body.periods))

\* Step 4 of the handler, on the outcome of the engine run: a failed run is
\* answered 500.
AnalysedRun(st, req, ai, cacheKey, tz, out) ==
    IF out.raised
    THEN [st EXCEPT !.engines = out.engines,
                    !.response = Rejected(500, "Event analysis engine temporarily unavailable"),
                    !.ran = <<out>>]
    ELSE AnalysedFiltered(st, req, ai, cacheKey, tz, out,
                          ContextFiltered(out.returned.matches, ai, st.filterCache,
                                          req.now, tz))

\* Steps 3 to 7 of the handler, after a cache miss: st is the state the
\* request found (user, queryCache, queryHistory, engines, filterCache).
Analysed(st, req, ai, cacheKey, tz) ==
    AnalysedRun(st, req, ai, cacheKey, tz,
                runEventAnalysis(st.engines, EngineRun(ai, req, tz)))

\* Step 2 of the handler on a cache hit
ServedFromCache(st, req, ai, cacheKey, tz) ==
    [st EXCEPT
        !.queryCache = [@ EXCEPT ![cacheKey].hitCount = @ + 1],
        !.user = updateUserUsage(@, req.now, tz),
        !.queryHistory =
            Append(@, [query |-> req.body.query[1], strategy |-> ai.event_type,
                       ticker |-> ai.ticker, cached |-> TRUE]),
        !.response = Answer(200, NULL, ai.event_type, TRUE, st.queryCache[cacheKey].results,
                            st.queryCache[cacheKey].summary, 0)]

\* The handler of POST /api/analyze. req.ai is what
\* EnhancedAIParser.processNaturalLanguage answers for the query: it throws,
\* or returns an object with an error, or returns the parsed request.
AnalyzeHandler(st, req, tz) ==
    LET ai == req.ai
        cacheKey == generateQueryHash(ai.event_type, ai.ticker,
                                      WithPeriods(ai.parameters, req.body.periods))
    IN  IF req.body.query = <<>>
        THEN [st EXCEPT !.response = Rejected(400, "Natural language query is required")]
        ELSE IF ai.threw
        THEN [st EXCEPT !.response = Rejected(400, "Could not understand your query")]
        ELSE IF ai.error # <<>>
        THEN [st EXCEPT !.response = Rejected(400, ai.error[1])]
        ELSE IF ai.event_type \notin EventTypes
        THEN [st EXCEPT !.response = Rejected(400, "AI returned invalid event type")]
        ELSE IF cacheKey \in DOMAIN st.queryCache
        THEN ServedFromCache(st, req, ai, cacheKey, tz)
        ELSE Analysed(st, req, ai, cacheKey, tz)

\* The route with its middleware: authenticateToken, checkSubscriptionLimits,
\* checkStrategyAccess, then the handler. req.token is <<>> when the request
\* carries none; a token that is there names the user.
PostApiAnalyze(st, req, tz) ==
    LET limits == checkSubscriptionLimits(st.user, req.now, tz)
        checked == [st EXCEPT !.user = limits.user]
    IN  IF req.token = <<>>
        THEN [st EXCEPT !.response = Rejected(401, "Access token required")]
        ELSE IF ~limits.next
        THEN [checked EXCEPT !.response = Rejected(429, "Monthly query limit reached")]
        ELSE IF ~checkStrategyAccess(limits.user, req.body).next
        THEN [checked EXCEPT !.response = Rejected(403, "Strategy requires Pro subscription")]
        ELSE AnalyzeHandler(checked, req, tz)

(***************************************************************************)
(* Requests to POST /api/analyze                                           *)
(***************************************************************************)
\* The most requests the route serves with results in one behaviour
MaxServed == 2

Tiers == {"starter", "pro", "pro_journal", "enterprise"}

\* What the AI parser answers
AIParsed(eventType, parameters, context_filters) ==
    [threw |-> FALSE, error |-> <<>>, event_type |-> eventType, ticker |-> "SPY",
     parameters |-> parameters, context_filters |-> context_filters,
     additional_filters |->
        [day_filter |-> <<<<"friday", "monday">>>>, month_filter |-> <<>>]]

AIThrows == [AIParsed(NULL, JSUndefined, <<>>) EXCEPT !.threw = TRUE]

AIError == [AIParsed(NULL, JSUndefined, <<>>) EXCEPT !.error = <<"Query too vague">>]

\* percent_move, days, direction as the parser fills them in
MoveOf(percent) == JSObject([percent_move |-> R(percent, 1), days |-> 1, direction |-> "up"])

AIAnswers ==
    {AIThrows, AIError,
     AIParsed("EARNINGS_DRIFT", JSObject(<<>>), <<>>),
     AIParsed("PERCENT_MOVE", MoveOf(2), <<>>),
     AIParsed("PERCENT_MOVE", MoveOf(2), <<"DAY_OF_WEEK">>),
     AIParsed("PERCENT_MOVE", MoveOf(5), <<>>),
     AIParsed("REVERSAL", ReversalParameters, <<>>),
     AIParsed("MOMENTUM_BULLISH", MomentumParameters, <<>>),
     AIParsed("TOY_BAROMETER", GoodToyParameters, <<>>),
     AIParsed("VOLATILITY_EVENT", VolatilityParameters, <<>>)}

AnalyzeBody(query, strategy, event_type) ==
    [query |-> query, strategy |-> strategy, event_type |-> event_type, periods |-> <<>>]

\* Bodies: the query alone, as the route's own documentation shows it, and
\* with a strategy or event_type property beside it
AnalyzeBodies ==
    {AnalyzeBody(<<"query">>, <<>>, <<>>),
     AnalyzeBody(<<"query">>, <<"PERCENT_MOVE">>, <<>>),
     AnalyzeBody(<<"query">>, <<"MOMENTUM_BULLISH">>, <<>>),
     AnalyzeBody(<<"query">>, <<>>, <<"REVERSAL">>),
     AnalyzeBody(<<>>, <<"PERCENT_MOVE">>, <<>>)}

ServerRequests ==
    {[token |-> <<"jwt">>, body |-> body, ai |-> ai, market |-> market, now |-> Now0] :
        body \in AnalyzeBodies, ai \in AIAnswers, market \in {"calm", "down"}}
      \cup {[token |-> <<>>, body |-> AnalyzeBody(<<"query">>, <<>>, <<>>),
             ai |-> AIThrows, market |-> "calm", now |-> Now0]}

\* The handler runs from the request to its response. A behaviour ends with
\* the first request that is not served, or with the MaxServed-th served.
PostAnalyze(req) ==
    /\ Len(queryHistory) < MaxServed
    /\ response.status \in {0, 200}
    /\ \E out \in {PostApiAnalyze([user |-> userDoc, queryCache |-> queryCache,
                                   queryHistory |-> queryHistory, engines |-> engines,
                                   filterCache |-> filterService.cache,
                                   response |-> response, ran |-> <<>>],
                                  req, filterService.tz)} :
           /\ userDoc' = out.user
           /\ queryCache' = out.queryCache
           /\ queryHistory' = out.queryHistory
           /\ response' = [out.response EXCEPT !.request = <<req>>]
           /\ engines' = out.engines
           /\ filterService' = [filterService EXCEPT !.cache = out.filterCache]
           /\ lastCall' =
                IF out.ran = <<>> THEN lastCall
                ELSE [request |-> EngineRun(req.ai, req, filterService.tz),
                      enginesBefore |-> engines,
                      raised |-> out.ran[1].raised,
                      raisedMessage |-> out.ran[1].raisedMessage,
                      result |-> out.ran[1].result, returned |-> out.ran[1].returned,
                      fallback |-> out.ran[1].fallback, invoked |-> out.ran[1].invoked,
                      fetched |-> out.ran[1].fetched, log |-> out.ran[1].log,
                      parametersAfter |-> out.ran[1].parametersAfter,
                      dataAfter |-> out.ran[1].dataAfter]
    /\ UNCHANGED <<calc, filterCall, asyncVars>>

\* The server starts with one registered user, of any tier, who has used
\* none, all but one or all of the queries of the starter tier this month.
InitServer ==
    /\ engines = InitEngines
    /\ lastCall = NoCall
    /\ calc = NoCalculation
    /\ filterService = NewFilterService(0)
    /\ filterCall = NoFilterCall
    /\ userDoc \in {[NewUser(tier) EXCEPT !.queriesThisMonth = used,
                                       !.lastResetDate = <<reset>>] :
                    tier \in Tiers, used \in {0, 199, 200},
                    reset \in {Now0 - 1, Now0}}
    /\ queryCache = <<>>
    /\ queryHistory = <<>>
    /\ response = NoResponse
    /\ inflight = <<>>
    /\ running = <<>>

NextServer == \E req \in ServerRequests : PostAnalyze(req)

SpecServer == InitServer /\ [][NextServer]_vars

(***************************************************************************)
(* Properties of POST /api/analyze                                         *)
(***************************************************************************)
Answered == response.request # <<>>

\* The event kind the handler analyses for the answered request
AnalysedKind == response.request[1].ai.event_type

\* The handler got as far as looking the analysis up or running an engine.
AnalysisDone == response.status \in {200, 500}

\* C20: a user on the starter tier never obtains an analysis of an event kind
\* other than PERCENT_MOVE or REVERSAL: a request whose analysed kind is
\* outside the tier's strategies is answered 403 and neither is an engine run
\* for it nor a stored result served; and the strategy check does not reject
\* a starter request whose analysed kind is PERCENT_MOVE or REVERSAL.
C20_TierGating ==
    (Answered /\ ~TIER_LIMITS[userDoc.tier].all) =>
        /\ AnalysisDone => AnalysedKind \in TIER_LIMITS[userDoc.tier].strategies
        /\ (/\ response.request[1].token # <<>>
            /\ response.request[1].body.query # <<>>
            /\ ~response.request[1].ai.threw
            /\ AnalysedKind \in TIER_LIMITS[userDoc.tier].strategies)
              => response.status # 403

(***************************************************************************)
(* Concurrent requests of one user to POST /api/analyze                    *)
(*                                                                         *)
(* Every await of the route yields to the event loop, so the requests of   *)
(* one user interleave between the steps below. userDoc is the stored      *)
(* document; each request works on the copy that authenticateToken loaded  *)
(* (req.user) and updateUserUsage on the copy it loads itself.             *)
(***************************************************************************)
\* The most requests in progress or answered in one behaviour
MaxRequests == 3

\* The analyses the user has left in the month when the requests arrive
QuotaLeft == 1

LimitedTiers == {tier \in Tiers : TIER_LIMITS[tier].queries # -1}

QuotaRequests ==
    {[token |-> <<"jwt">>, body |-> AnalyzeBody(<<"query">>, <<"PERCENT_MOVE">>, <<>>),
      ai |-> AIParsed("PERCENT_MOVE", MoveOf(percent), <<>>), market |-> "calm",
      now |-> Now0] : percent \in {2, 5}}

\* user.save() writes the paths the request modified to the stored document
SaveReset(stored, now) ==
    [stored EXCEPT !.queriesThisMonth = 0, !.lastResetDate = <<now>>]

\* updateUserUsage's user.save(): fresh is the copy findById loaded
SaveUsage(stored, fresh, now, tz) ==
    [stored EXCEPT
        !.queriesThisMonth = updateUserUsage(fresh, now, tz).queriesThisMonth,
        !.lastResetDate = IF ResetDue(fresh, now, tz) THEN <<now>> ELSE @,
        !.totalQueries = updateUserUsage(fresh, now, tz).totalQueries,
        !.lastLogin = <<now>>]

\* authenticateToken: the request arrives, User.findById loads req.user
Authenticate(req) ==
    /\ Len(inflight) < MaxRequests
    /\ inflight' = Append(inflight, [pc |-> "limits", request |-> req, user |-> userDoc,
                                     fresh |-> <<>>, answer |-> NoResponse,
                                     logged |-> <<>>])
    /\ UNCHANGED <<engines, lastCall, calc, filterService, filterCall, running>>
    /\ UNCHANGED serverVars

\* checkSubscriptionLimits, then checkStrategyAccess, up to the handler's
\* first await
CheckLimits(p) ==
    /\ p \in DOMAIN inflight
    /\ inflight[p].pc = "limits"
    /\ \E limits \in {checkSubscriptionLimits(inflight[p].user, inflight[p].request.now,
                                              filterService.tz)} :
          /\ userDoc' = IF ResetDue(inflight[p].user, inflight[p].request.now, filterService.tz)
                        THEN SaveReset(userDoc, inflight[p].request.now)
                        ELSE userDoc
          /\ IF ~limits.next
             THEN /\ inflight' = [inflight EXCEPT ![p].pc = "done", ![p].user = limits.user,
                                     ![p].answer = Rejected(429, "Monthly query limit reached")]
                  /\ response' = [Rejected(429, "Monthly query limit reached")
                                    EXCEPT !.request = <<inflight[p].request>>]
             ELSE IF ~checkStrategyAccess(limits.user, inflight[p].request.body).next
             THEN /\ inflight' = [inflight EXCEPT ![p].pc = "done", ![p].user = limits.user,
                                     ![p].answer = Rejected(403, "Strategy requires Pro subscription")]
                  /\ response' = [Rejected(403, "Strategy requires Pro subscription")
                                    EXCEPT !.request = <<inflight[p].request>>]
             ELSE /\ inflight' = [inflight EXCEPT ![p].pc = "handler", ![p].user = limits.user]
                  /\ UNCHANGED response
    /\ UNCHANGED <<engines, lastCall, calc, filterService, filterCall, running>>
    /\ UNCHANGED <<queryCache, queryHistory>>

\* The handler from the AI parse to cacheResult (or to the cache hit): the
\* analysis is made or looked up. A request that is not served is answered.
Handle(p) ==
    /\ p \in DOMAIN inflight
    /\ inflight[p].pc = "handler"
    /\ \E out \in {AnalyzeHandler([user |-> inflight[p].user, queryCache |-> queryCache,
                                   queryHistory |-> <<>>, engines |-> engines,
                                   filterCache |-> filterService.cache,
                                   response |-> NoResponse, ran |-> <<>>],
                                  inflight[p].request, filterService.tz)} :
          /\ queryCache' = out.queryCache
          /\ engines' = out.engines
          /\ filterService' = [filterService EXCEPT !.cache = out.filterCache]
          /\ IF out.response.status = 200
             THEN /\ inflight' = [inflight EXCEPT ![p].pc = "usage",
                                                  ![p].answer = out.response,
                                                  ![p].logged = out.queryHistory]
                  /\ UNCHANGED response
             ELSE /\ inflight' = [inflight EXCEPT ![p].pc = "done",
                                                  ![p].answer = out.response]
                  /\ response' = [out.response EXCEPT !.request = <<inflight[p].request>>]
    /\ UNCHANGED <<lastCall, calc, filterCall, running, userDoc, queryHistory>>

\* updateUserUsage: User.findById
UsageFind(p) ==
    /\ p \in DOMAIN inflight
    /\ inflight[p].pc = "usage"
    /\ inflight' = [inflight EXCEPT ![p].pc = "save", ![p].fresh = <<userDoc>>]
    /\ UNCHANGED <<engines, lastCall, calc, filterService, filterCall, running>>
    /\ UNCHANGED serverVars

\* updateUserUsage: user.save(); then QueryHistory.create and res.json
UsageSave(p) ==
    /\ p \in DOMAIN inflight
    /\ inflight[p].pc = "save"
    /\ userDoc' = SaveUsage(userDoc, inflight[p].fresh[1], inflight[p].request.now,
                            filterService.tz)
    /\ queryHistory' = queryHistory \o inflight[p].logged
    /\ response' = [inflight[p].answer EXCEPT !.request = <<inflight[p].request>>]
    /\ inflight' = [inflight EXCEPT ![p].pc = "done"]
    /\ UNCHANGED <<engines, lastCall, calc, filterService, filterCall, running, queryCache>>

InitQuota ==
    /\ engines = InitEngines
    /\ lastCall = NoCall
    /\ calc = NoCalculation
    /\ filterService = NewFilterService(0)
    /\ filterCall = NoFilterCall
    /\ userDoc \in {[NewUser(tier) EXCEPT
                        !.queriesThisMonth = TIER_LIMITS[tier].queries - QuotaLeft,
                        !.totalQueries = TIER_LIMITS[tier].queries - QuotaLeft,
                        !.lastResetDate = <<Now0>>] : tier \in LimitedTiers}
    /\ queryCache = <<>>
    /\ queryHistory = <<>>
    /\ response = NoResponse
    /\ inflight = <<>>
    /\ running = <<>>

NextQuota ==
    \/ \E req \in QuotaRequests : Authenticate(req)
    \/ \E p \in 1..MaxRequests :
          \/ CheckLimits(p)
          \/ Handle(p)
          \/ UsageFind(p)
          \/ UsageSave(p)

SpecQuota == InitQuota /\ [][NextQuota]_vars

\* C21: for a user on a limited tier and any interleaving of the user's
\* requests within one month, the number of analyses served and the stored
\* usage.queriesThisMonth never exceed the tier's query limit, and a request
\* that finds the limit reached is answered 429.
C21_MonthlyQuota ==
    /\ userDoc.queriesThisMonth <= TIER_LIMITS[userDoc.tier].queries
    /\ Len(queryHistory) <= QuotaLeft
    /\ \A p \in DOMAIN inflight :
          (/\ inflight[p].pc # "limits"
           /\ inflight[p].user.queriesThisMonth >= TIER_LIMITS[userDoc.tier].queries)
             => inflight[p].answer.status = 429

(***************************************************************************)
(* Overlapping analyze calls on the coordinator's engine instances         *)
(*                                                                         *)
(* analyze is an async method: a call runs up to an await (the series      *)
(* fetch, or `await analysisFunction.apply`), other calls may run          *)
(* meanwhile, and the rest of the call, which ends with the statements     *)
(* that update the health fields, runs in one piece when the await is      *)
(* over.                                                                   *)
(***************************************************************************)
\* The most analyze calls started in one behaviour
MaxOverlap == 3

OverlapRequests ==
    {AnalyzeRequest("PERCENT_MOVE", SPYData, PercentMoveParameters, "calm", 1),
     AnalyzeRequest("PERCENT_MOVE", JSNull, PercentMoveParameters, "calm", 1),
     AnalyzeRequest("TOY_BAROMETER", JSUndefined, GoodToyParameters, "calm", 1),
     AnalyzeRequest("TOY_BAROMETER", JSUndefined, JSNull, "calm", 1),
     AnalyzeRequest("MACRO_EVENT", JSNull, JSObject([cpi_threshold |-> R(3, 1)]),
                    "calm", 1)}

\* A counter statement that read the fields when the call started and wrote
\* them back when it ended.
HealthReadAtStart(started, current) == started

\* this.successCount++ / this.errorCount++ and the assignments beside them
\* read the engine's fields when the statement runs, not when the call began.
HealthRead(started, current) == current

\* engine.analyze of the instance registered for eventType, on the health
\* fields its closing statements read
AnalyzeCall(eventType, health, req) ==
    IF eventType = "TOY_BAROMETER"
    THEN TOYBarometerEngine_analyze(health, req.parameters, req)
    ELSE EngineAnalyze(eventType, health, req.data, req.parameters, req)

Awaiting == {p \in DOMAIN running : running[p].pc = "awaiting"}

\* A caller calls analyze; the call runs up to its await.
BeginAnalyze(req) ==
    /\ Len(running) < MaxOverlap
    /\ running' = Append(running, [pc |-> "awaiting", request |-> req,
                                   started |-> engines[req.eventType],
                                   before |-> NewEngine, after |-> NewEngine,
                                   success |-> FALSE, raised |-> FALSE, among |-> {}])
    /\ UNCHANGED <<engines, lastCall, calc, filterService, filterCall, inflight>>
    /\ UNCHANGED serverVars

\* The await of call p is over: the call runs to its end.
CompleteAnalyze(p) ==
    /\ p \in Awaiting
    /\ \E call \in {AnalyzeCall(running[p].request.eventType,
                                HealthRead(running[p].started,
                                           engines[running[p].request.eventType]),
                                running[p].request)} :
          /\ engines' = [engines EXCEPT ![running[p].request.eventType] = call.health]
          /\ running' = [running EXCEPT
                            ![p].pc = "done",
                            ![p].before = engines[running[p].request.eventType],
                            ![p].after = call.health,
                            ![p].success = call.result.success,
                            ![p].raised = call.raised,
                            ![p].among = {q \in Awaiting \ {p} :
                                            running[q].request.eventType =
                                                running[p].request.eventType}]
    /\ UNCHANGED <<lastCall, calc, filterService, filterCall, inflight>>
    /\ UNCHANGED serverVars

NextOverlap ==
    \/ \E req \in OverlapRequests : BeginAnalyze(req)
    \/ \E p \in 1..MaxOverlap : CompleteAnalyze(p)

SpecOverlap == Init /\ [][NextOverlap]_vars

\* The completed calls on the engine of kind t that returned success = ok
DoneOn(t, ok) ==
    {p \in DOMAIN running : /\ running[p].pc = "done"
                            /\ running[p].request.eventType = t
                            /\ running[p].success = ok}

\* C22: under any interleaving of analyze calls on the same engine instance,
\* each completed call raises exactly one of successCount and errorCount by
\* exactly 1 and leaves the other alone, and at every moment each counter is
\* the number of calls completed so far with that outcome: no update is lost,
\* no counter decreases or is reset, and when all calls are complete the two
\* counters together have grown by the number of calls.
C22_CountersLoseNoUpdate ==
    /\ \A p \in DOMAIN running :
          running[p].pc = "done" =>
             LET b == running[p].before
                 a == running[p].after
             IN  \/ a.successCount = b.successCount + 1 /\ a.errorCount = b.errorCount
                 \/ a.successCount = b.successCount /\ a.errorCount = b.errorCount + 1
    /\ \A t \in EventTypes :
          /\ engines[t].successCount = Cardinality(DoneOn(t, TRUE))
          /\ engines[t].errorCount = Cardinality(DoneOn(t, FALSE))

\* Three calls on one engine instance are complete, one of them completed
\* while the two others were awaiting, and both outcomes occurred.
C22_Witness ==
    /\ Len(running) = MaxOverlap
    /\ \A p \in DOMAIN running : running[p].pc = "done"
    /\ \E p \in DOMAIN running : Cardinality(running[p].among) = 2
    /\ \E t \in EventTypes : DoneOn(t, TRUE) # {} /\ DoneOn(t, FALSE) # {}

(***************************************************************************)
(* findNearestTradingDay on its own                                        *)
(***************************************************************************)
\* Nominal boundary dates <<year, month, day>>: before a month end and a year
\* end, at the end of February, and in the middle of a month
SnapTargets ==
    {<<2000, 12, 30>>, <<2000, 12, 28>>, <<2001, 12, 31>>, <<2001, 1, 29>>,
     <<2001, 2, 26>>, <<2001, 6, 10>>}

\* The weekdays of first..last, New Year's Day left out
Weekdays(first, last) ==
    {n \in first..last : /\ (n + 4) % 7 \notin {0, 6}
                         /\ n # DayNumber(YearOfDay(n), 1, 1)}

\* Sets of trading days about the day D: none, one day, two days, and the
\* weekdays of the weeks around D
SnapDaySets(D) ==
    {{}} \cup {{D + k} : k \in -1..12}
         \cup {{D + j, D + k} : j \in {1, 3, 5}, k \in {7, 10, 11}}
         \cup {Weekdays(D - 2, D + 40), Weekdays(D + 1, D + 40)}

SnapRequests ==
    {[op |-> "findNearestTradingDay", target |-> target, days |-> days, tz |-> tz] :
        target \in SnapTargets, tz \in ToyZones,
        days \in UNION {SnapDaySets(DayNumber(t[1], t[2], t[3])) : t \in SnapTargets}}

\* analyzeTOYPeriod builds the nominal date with new Date(year, month - 1,
\* day) and snaps it to a trading day.
FindNearestTradingDay(req) ==
    /\ lastCall.request.op = "none"
    /\ lastCall' = [NoCall EXCEPT
                      !.request = req,
                      !.returned =
                          findNearestTradingDay(
                              NewDate(req.target[1], req.target[2], req.target[3], req.tz),
                              req.days, req.tz)]
    /\ UNCHANGED <<engines, calc, filterService, filterCall>>
    /\ UNCHANGED <<serverVars, asyncVars>>

NextSnap == \E req \in SnapRequests : FindNearestTradingDay(req)

SpecSnap == Init /\ [][NextSnap]_vars

SnapCalled == lastCall.request.op = "findNearestTradingDay"

\* The nominal day D of the call
SnapDay == DayNumber(lastCall.request.target[1], lastCall.request.target[2],
                     lastCall.request.target[3])

\* The trading days among D, D+1, ..., D+10
SnapCandidates == {n \in SnapDay..(SnapDay + maxSearchDays) : n \in lastCall.request.days}

\* C23: findNearestTradingDay returns D when D is a trading day, otherwise
\* the earliest trading day among D+1 ... D+10 (also across a month or year
\* end), and null exactly when no trading day lies in [D, D+10].
C23_SnapsToEarliestTradingDay ==
    SnapCalled =>
        IF SnapCandidates = {}
        THEN lastCall.returned = <<>>
        ELSE lastCall.returned =
                <<CHOOSE n \in SnapCandidates : \A k \in SnapCandidates : n <= k>>

(***************************************************************************)
(* calculateForwardReturns on its own                                      *)
(***************************************************************************)
\* A series of n sessions closing at first, first + step, first + 2 step, ...
LinearSeries(n, first, step) ==
    ClosesSeries([k \in 1..n |-> first + step * (k - 1)])

ForwardDayLists ==
    {<<1, 5>>, <<7>>, <<20, 21>>, <<21, 20>>, <<40, 42>>, <<60, 63>>, <<1, 20, 21>>,
     <<5, 10, 15, 20, 40, 63, 126, 252>>}

ToyForwardRequests ==
    {[op |-> "calculateForwardReturns", rows |-> LinearSeries(n, path[1], path[2]),
      startIndex |-> e, forwardDays |-> forward_days] :
        n \in {3, 23, 25, 45, 66}, path \in {<<100, 1>>, <<200, -2>>}, e \in 0..2,
        forward_days \in ForwardDayLists}

\* analyzeTOYPeriod calls calculateForwardReturns(data, endData.index,
\* forwardDays) for a year it does not skip.
CalculateForwardReturns(req) ==
    /\ lastCall.request.op = "none"
    /\ lastCall' = [NoCall EXCEPT
                      !.request = req,
                      !.returned = calculateForwardReturns(req.rows, req.startIndex,
                                                           req.forwardDays)]
    /\ UNCHANGED <<engines, calc, filterService, filterCall>>
    /\ UNCHANGED <<serverVars, asyncVars>>

NextToyForward == \E req \in ToyForwardRequests : CalculateForwardReturns(req)

SpecToyForward == Init /\ [][NextToyForward]_vars

ForwardCalled == lastCall.request.op = "calculateForwardReturns"

\* (close[e+n] - close[e]) / close[e] * 100 as <<r>>, or <<>> (null) when e+n
\* is past the end of the series
ForwardValue(rows, e, n) ==
    IF e + n < Len(rows)
    THEN <<RMul(RDivInt(RSub(R(rows[e + n + 1].close, 1), R(rows[e + 1].close, 1)),
                        rows[e + 1].close),
                R(100, 1))>>
    ELSE <<>>

\* C24: for every offset n of forward_days the forward returns hold, under
\* n's label, (close[e+n] - close[e]) / close[e] * 100 when e+n is inside the
\* series and null otherwise; this holds for each requested offset, also for
\* two requested offsets that map to the same label.
C24_EveryOffsetIsReported ==
    ForwardCalled =>
        \A k \in DOMAIN lastCall.request.forwardDays :
            LET n == lastCall.request.forwardDays[k]
                key == mapDaysToLabel(n) \o "_return"
            IN  /\ key \in DOMAIN lastCall.returned
                /\ lastCall.returned[key] =
                      ForwardValue(lastCall.request.rows, lastCall.request.startIndex, n)

(***************************************************************************)
(* MomentumEngine.analyze over series long enough for several matches      *)
(***************************************************************************)
\* Sessions every day, on weekdays only, once a week, and every sixth day
\* (sessions exactly 30 days apart), from FirstDay on
GapCalendars ==
    {[k \in 1..45 |-> FirstDay + k - 1],
     [k \in 1..45 |-> FirstDay + 7 * ((k - 1) \div 5) + ((k - 1) % 5)],
     [k \in 1..20 |-> FirstDay + 7 * (k - 1)],
     [k \in 1..20 |-> FirstDay + 6 * (k - 1)]}

\* Closes that climb (step > 0) or fall (step < 0) for three sessions out of
\* four and then start over, so that every match has one of a few returns;
\* session dipAt (if any) closes where the session before it closed.
GapPattern(step) == IF step > 0 THEN <<100, 110, 120, 130>> ELSE <<130, 120, 110, 100>>

GapClose(k, step, dipAt) ==
    IF k = dipAt /\ k > 1 THEN GapPattern(step)[((k - 2) % 4) + 1]
    ELSE GapPattern(step)[((k - 1) % 4) + 1]

GapSeries(calendar, step, dipAt) ==
    Series(calendar, 0,
           [k \in DOMAIN calendar |-> <<GapClose(k, step, dipAt), GapClose(k, step, dipAt)>>])

GapRequests ==
    {AnalyzeRequest("MOMENTUM_BULLISH", JSArray(GapSeries(calendar, step, dipAt)),
                    JSObject([sma_period |-> 2, days |-> days, momentum_type |-> type,
                              threshold |-> R(12, 10)]),
                    "calm", 1) :
        calendar \in GapCalendars, step \in {1, -1}, dipAt \in {0, 4, 5, 6, 7, 12, 18},
        days \in {2, 3}, type \in {"bullish", "bearish"}}

GapScan(req) ==
    /\ lastCall.request.op = "none"
    /\ MomentumAnalyze(req)

NextMomentumGap == \E req \in GapRequests : GapScan(req)

SpecMomentumGap == Init /\ [][NextMomentumGap]_vars

MomentumCalled ==
    /\ lastCall.request.op = "analyze"
    /\ lastCall.request.eventType \in {"MOMENTUM_BULLISH", "MOMENTUM_BEARISH"}
    /\ lastCall.result.success

MomentumMatches == lastCall.returned.matches

\* C25: in every MomentumEngine result any two matches have end dates at
\* least 30 days apart: a window whose end date is fewer than 30 days after
\* the end date of the last match recorded is never a match.
C25_MatchesThirtyDaysApart ==
    MomentumCalled =>
        \A a, b \in DOMAIN MomentumMatches :
            a < b => MomentumMatches[b].date - MomentumMatches[a].date >= 30 * TicksPerDay

\* The window that starts at index i (from 0) of the scanned series meets the
\* engine's condition on its own.
WindowQualifies(i) ==
    LET rows == lastCall.dataAfter.rows
        days == lastCall.request.parameters.props.days
        type == lastCall.request.parameters.props.momentum_type
    IN  IF type = "bullish"
        THEN /\ BullishScan(rows, i, i + days).isValidPeriod
             /\ RGeq(BullishScan(rows, i, i + days).extremeValue, RNeg(R(12, 10)))
        ELSE /\ BearishScan(rows, i, i + days).isValidPeriod
             /\ RLeq(BearishScan(rows, i, i + days).extremeValue, R(12, 10))

\* A result with three matches or more, and a window between the first two
\* that meets the condition on its own and is no match.
C25_Witness ==
    /\ MomentumCalled
    /\ Len(MomentumMatches) >= 3
    /\ \E i \in 2..(Len(lastCall.dataAfter.rows) - lastCall.request.parameters.props.days - 1) :
          LET end == lastCall.dataAfter.rows[i + lastCall.request.parameters.props.days + 1].date
          IN  /\ MomentumMatches[1].date < end
              /\ end < MomentumMatches[2].date
              /\ WindowQualifies(i)

(***************************************************************************)
(* _alignDataSeries on its own                                             *)
(***************************************************************************)
\* The days a series may have sessions on
AlignDays == FirstDay..(FirstDay + 3)

\* The series with one session on each day of days, stamped tick ticks into
\* the UTC day, closing at base + the day's offset from FirstDay; with twice
\* set, the last day has a second, later session.
AlignSeries(days, tick, base, twice) ==
    LET n == Cardinality(days)
        ordered == [k \in 1..n |->
                        CHOOSE d \in days : Cardinality({e \in days : e < d}) = k - 1]
        daily == [k \in 1..n |->
                    PricePoint(ordered[k] * TicksPerDay + tick,
                               base + ordered[k] - FirstDay, base + ordered[k] - FirstDay)]
    IN  IF twice /\ n > 0 /\ tick + 1 < TicksPerDay
        THEN Append(daily, PricePoint(ordered[n] * TicksPerDay + tick + 1, base + 50,
                                      base + 50))
        ELSE daily

AlignInputs(base) ==
    {AlignSeries(days, tick, base, twice) :
        days \in SUBSET AlignDays, tick \in {0, 1}, twice \in BOOLEAN}

AlignRequests ==
    {[op |-> "_alignDataSeries", dataA |-> dataA, dataB |-> dataB] :
        dataA \in AlignInputs(100), dataB \in AlignInputs(200)}

\* _analyzeSectorSpread and _analyzeVolatility align the two series they
\* compare.
AlignDataSeries(req) ==
    /\ lastCall.request.op = "none"
    /\ lastCall' = [NoCall EXCEPT !.request = req,
                                  !.returned = _alignDataSeries(req.dataA, req.dataB)]
    /\ UNCHANGED <<engines, calc, filterService, filterCall>>
    /\ UNCHANGED <<serverVars, asyncVars>>

NextAlign == \E req \in AlignRequests : AlignDataSeries(req)

SpecAlign == Init /\ [][NextAlign]_vars

AlignCalled == lastCall.request.op = "_alignDataSeries"

Aligned == lastCall.returned

\* The calendar days of a series
DaysOf(rows) == {ToISODate(rows[i].date) : i \in DOMAIN rows}

\* C26: for two series sorted strictly ascending by date the aligned output
\* contains only days present in both inputs, contains each such day exactly
\* once with a price point of that day from each input, and is sorted
\* ascending by date.
C26_AlignerIsInnerJoin ==
    AlignCalled =>
        /\ \A i \in DOMAIN Aligned :
              /\ \E k \in DOMAIN lastCall.request.dataA :
                    /\ Aligned[i].a = lastCall.request.dataA[k]
                    /\ ToISODate(Aligned[i].a.date) = ToISODate(Aligned[i].date)
              /\ \E k \in DOMAIN lastCall.request.dataB :
                    /\ Aligned[i].b = lastCall.request.dataB[k]
                    /\ ToISODate(Aligned[i].b.date) = ToISODate(Aligned[i].date)
        /\ \A d \in DaysOf(lastCall.request.dataA) \cap DaysOf(lastCall.request.dataB) :
              Cardinality({i \in DOMAIN Aligned : ToISODate(Aligned[i].date) = d}) = 1
        /\ \A i, j \in DOMAIN Aligned :
              i < j => /\ Aligned[i].date < Aligned[j].date
                       /\ ToISODate(Aligned[i].date) < ToISODate(Aligned[j].date)

\* Both inputs have days the other lacks, and two days or more are common.
C26_Witness ==
    /\ AlignCalled
    /\ Len(Aligned) >= 2
    /\ DaysOf(lastCall.request.dataA) \ DaysOf(lastCall.request.dataB) # {}
    /\ DaysOf(lastCall.request.dataB) \ DaysOf(lastCall.request.dataA) # {}
    /\ lastCall.request.dataA[1].date # lastCall.request.dataB[1].date

(***************************************************************************)
(* Lookups of the regime tables, one after another                         *)
(***************************************************************************)
MemoRanges == {<<2020, 2021>>, <<2020, 2020>>}

\* Times of calls: a first one, the last tick before the cache timeout has
\* passed since, and the tick at which it has
MemoTimes == {FilterNow0, FilterNow0 + cacheTimeout - 1, FilterNow0 + cacheTimeout}

TableGetters == {"getEarningsSeasonDates", "getFedMeetingDates", "getOptionsExpirationDates"}

\* The lookups callers make: two ranges of one regime, and the two other
\* regimes with one of these ranges each
MemoLookups ==
    {<<"getEarningsSeasonDates", <<2020, 2021>>>>, <<"getEarningsSeasonDates", <<2020, 2020>>>>,
     <<"getFedMeetingDates", <<2020, 2021>>>>, <<"getOptionsExpirationDates", <<2020, 2020>>>>}

MemoRequests ==
    {FilterRequest(lookup[1], <<>>, <<>>, NoAdditionalFilters, lookup[2], now) :
        lookup \in MemoLookups, now \in MemoTimes}
      \cup {FilterRequest("clearCache", <<>>, <<>>, NoAdditionalFilters, <<>>, now) :
              now \in MemoTimes}

\* Callers look tables up and clear the cache, in any order, as time goes by.
NextMemo ==
    \E req \in MemoRequests :
        \/ GetEarningsSeasonDates(req)
        \/ GetFedMeetingDates(req)
        \/ GetOptionsExpirationDates(req)
        \/ ClearCache(req)

SpecMemo == InitFilters /\ [][NextMemo]_vars

\* The prefix of a getter's cache keys
KeyPrefix(method) ==
    CASE method = "getEarningsSeasonDates" -> "earnings"
      [] method = "getFedMeetingDates" -> "fed_meetings"
      [] method = "getOptionsExpirationDates" -> "options_exp"

\* The table of a regime and a range, computed afresh
FreshTable(method, range, tz) ==
    CASE method = "getEarningsSeasonDates" -> EarningsSeasons(range[1], range[2], tz)
      [] method = "getFedMeetingDates" -> FilteredMeetings(range[1], range[2], tz)
      [] method = "getOptionsExpirationDates" -> ExpirationDates(range[1], range[2], tz)

LookedUp == filterCall.method \in TableGetters

LookupKey == TableCacheKey(KeyPrefix(filterCall.method), filterCall.range[1], filterCall.range[2])

\* C27: after any sequence of table lookups and clearCache calls, the table a
\* lookup returns equals a fresh computation for its regime and range; a
\* stored table is served (its timestamp kept) only while its age is under
\* the timeout of 24 hours, and otherwise the lookup recomputes the table and
\* stores it with the current time; every stored entry holds the table of one
\* regime and range, and different regimes or ranges have different keys.
C27_MemoizationIsTransparent ==
    /\ LookedUp =>
          /\ filterCall.returned =
                FreshTable(filterCall.method, filterCall.range, filterService.tz)
          /\ LookupKey \in DOMAIN filterService.cache
          /\ filterService.cache[LookupKey].data = filterCall.returned
          /\ IF /\ LookupKey \in DOMAIN filterCall.cacheBefore
                /\ filterCall.now - filterCall.cacheBefore[LookupKey].timestamp
                      < TicksPerDay
             THEN filterService.cache[LookupKey] = filterCall.cacheBefore[LookupKey]
             ELSE filterService.cache[LookupKey].timestamp = filterCall.now
          /\ \A k \in DOMAIN filterCall.cacheBefore \ {LookupKey} :
                /\ k \in DOMAIN filterService.cache
                /\ filterService.cache[k] = filterCall.cacheBefore[k]
    /\ \A m1, m2 \in TableGetters : \A r1, r2 \in MemoRanges :
          TableCacheKey(KeyPrefix(m1), r1[1], r1[2]) = TableCacheKey(KeyPrefix(m2), r2[1], r2[2])
              => m1 = m2 /\ r1 = r2
    /\ \A m \in TableGetters : \A r \in MemoRanges :
          TableCacheKey(KeyPrefix(m), r[1], r[2]) \in DOMAIN filterService.cache =>
              filterService.cache[TableCacheKey(KeyPrefix(m), r[1], r[2])].data =
                  FreshTable(m, r, filterService.tz)

\* A lookup found its table stored for the full timeout or longer and
\* recomputed it, while the table of another range of the same regime and a
\* table of another regime stayed stored.
C27_Witness ==
    /\ LookedUp
    /\ LookupKey \in DOMAIN filterCall.cacheBefore
    /\ filterCall.now - filterCall.cacheBefore[LookupKey].timestamp >= cacheTimeout
    /\ filterService.cache[LookupKey].timestamp = filterCall.now
    /\ \E r \in MemoRanges \ {filterCall.range} :
          TableCacheKey(KeyPrefix(filterCall.method), r[1], r[2]) \in DOMAIN filterService.cache
    /\ \E m \in TableGetters \ {filterCall.method} : \E r \in MemoRanges :
          TableCacheKey(KeyPrefix(m), r[1], r[2]) \in DOMAIN filterService.cache

(***************************************************************************)
(* The caller's series after an engine's analyze call                      *)
(***************************************************************************)
AnalyzeCalled == lastCall.request.op = "analyze"

\* C28: after any engine's analyze call, the input series has the length and
\* order it had before the call, and each of its points has exactly the
\* fields and values it had before the call.
C28_EnginesLeaveInputUntouched ==
    AnalyzeCalled => lastCall.dataAfter = lastCall.request.data

(***************************************************************************)
(* The query cache of POST /api/analyze                                    *)
(***************************************************************************)
\* A timeframe map a body may carry
ShortPeriods == << <<"1D", 1>>, <<"1W", 5>> >>

\* Parsed queries that differ in event kind, ticker, engine parameters or
\* context filters
CachedAnswers ==
    {AIParsed("PERCENT_MOVE", MoveOf(2), <<>>),
     AIParsed("PERCENT_MOVE", MoveOf(2), <<"DAY_OF_WEEK">>),
     AIParsed("PERCENT_MOVE", MoveOf(5), <<>>),
     [AIParsed("PERCENT_MOVE", MoveOf(2), <<>>) EXCEPT !.ticker = "XLK"],
     AIParsed("REVERSAL", ReversalParameters, <<>>)}

CacheRequests ==
    {[token |-> <<"jwt">>,
      body |-> [AnalyzeBody(<<"query">>, <<>>, <<>>) EXCEPT !.periods = periods],
      ai |-> ai, market |-> "calm", now |-> Now0] :
        ai \in CachedAnswers, periods \in {<<>>, <<ShortPeriods>>}}

NextCache == \E req \in CacheRequests : PostAnalyze(req)

SpecCache == InitServer /\ [][NextCache]_vars

\* The cache key the handler computes for a request
QueryHashOf(req) ==
    generateQueryHash(req.ai.event_type, req.ai.ticker,
                      WithPeriods(req.ai.parameters, req.body.periods))

\* Two requests ask for the same analysis.
SameAnalysis(r1, r2) ==
    /\ r1.ai.event_type = r2.ai.event_type
    /\ r1.ai.ticker = r2.ai.ticker
    /\ r1.ai.parameters = r2.ai.parameters
    /\ WithPeriods(r1.ai.parameters, r1.body.periods).periods
          = WithPeriods(r2.ai.parameters, r2.body.periods).periods
    /\ r1.ai.context_filters = r2.ai.context_filters

CacheHit == response.status = 200 /\ response.cached

\* C29: a response served from the query cache comes from an entry stored
\* for the event kind, ticker and engine parameters of the request, and two
\* requests that differ in event kind, ticker, engine parameters, timeframe
\* map or context filters never have the same cache key.
C29_QueryCacheIsSound ==
    /\ CacheHit =>
          LET req == response.request[1]
              entry == queryCache[QueryHashOf(req)]
          IN  /\ entry.strategy = req.ai.event_type
              /\ entry.ticker = req.ai.ticker
              /\ entry.parameters = req.ai.parameters
    /\ \A r1, r2 \in CacheRequests :
          QueryHashOf(r1) = QueryHashOf(r2) => SameAnalysis(r1, r2)

(***************************************************************************)
(* The health an engine reports after a sequence of calls                  *)
(***************************************************************************)
\* The engine whose analyze completed in the last call, if any did
JustCompleted(eventType) == lastCall.invoked = <<eventType>>

\* C30: after any sequence of calls, an engine reports healthy iff none of
\* its calls has completed yet or the one that completed last succeeded (an
\* engine the last call did not reach reports what it reported before);
\* lastError is null exactly when healthy is true; getAvailableEngines lists
\* exactly the healthy engines; successRate is successCount over the
\* completed calls, and 0 when there is none; and the coordinator calls the
\* engine of a request whether or not it is healthy.
C30_HealthyNeverLatches ==
    /\ \A t \in EventTypes :
          LET status == getEngineHealthStatus(engines)[t]
              before == getEngineHealthStatus(lastCall.enginesBefore)[t]
          IN  /\ status.healthy =
                    IF JustCompleted(t) THEN lastCall.result.success ELSE before.healthy
              /\ ~JustCompleted(t) => status = before
              /\ status.totalAnalyses = 0 => status.healthy
              /\ (status.lastError = NULL) <=> status.healthy
              /\ Among(getAvailableEngines(engines), t) <=> status.healthy
              /\ status.successRate =
                    IF status.totalAnalyses = 0 THEN Zero
                    ELSE RNorm(R(engines[t].successCount, status.totalAnalyses))
    /\ lastCall.request.op = "run" =>
          lastCall.invoked = runEventAnalysis(InitEngines, lastCall.request).invoked

\* The coordinator ran a request on an engine whose last call had failed and
\* which was not listed as available; the call succeeded, and the engine is
\* healthy and listed again, with one success in two calls.
C30_Witness ==
    /\ lastCall.request.op = "run"
    /\ JustCompleted(lastCall.request.eventType)
    /\ ~lastCall.enginesBefore[lastCall.request.eventType].isHealthy
    /\ ~Among(getAvailableEngines(lastCall.enginesBefore), lastCall.request.eventType)
    /\ lastCall.result.success
    /\ getHealthStatus(lastCall.request.eventType, CalledAfter).healthy
    /\ getHealthStatus(lastCall.request.eventType, CalledAfter).lastError = NULL
    /\ getHealthStatus(lastCall.request.eventType, CalledAfter).successRate = R(1, 2)
    /\ Among(getAvailableEngines(engines), lastCall.request.eventType)

====
